---- MODULE Spec2Model ----
(***************************************************************************)
(* Tiered metadata-tamper analysis engine of AI-AVER-V4:                   *)
(* src/src/metadata-analyzer.py, class MetadataAnalyzer.                   *)
(*                                                                         *)
(* One analyzer instance (knowledge_base, narrative, metadata, file_path)  *)
(* serves a sequence of analyze() calls.  Each call is modelled step by    *)
(* step: reset and extraction, Tier 1, Tier 2, Tier 3, Tier 4, return.     *)
(* Strings are TLA+ strings and the string operations the code uses        *)
(* (lower, in, endswith, replace, split, strptime, int) are computed on    *)
(* them character by character.                                            *)
(***************************************************************************)
EXTENDS Integers, Sequences, FiniteSets, TLC

VARIABLES knowledge_base, narrative, metadata, file_path, pc, ran,
          is_level1_flagged, is_level2_flagged_or_ambiguous, report, exc

vars == <<knowledge_base, narrative, metadata, file_path, pc, ran,
          is_level1_flagged, is_level2_flagged_or_ambiguous, report, exc>>

(***************************************************************************)
(* Python strings.                                                         *)
(***************************************************************************)
UpperChars == "ABCDEFGHIJKLMNOPQRSTUVWXYZ"
LowerChars == "abcdefghijklmnopqrstuvwxyz"
DigitChars == "0123456789"

CharAt(s, i) == SubSeq(s, i, i)

\* the lower-case letter of every upper-case letter
LowerTable ==
    [c \in {CharAt(UpperChars, i) : i \in 1..26} |->
        CharAt(LowerChars, CHOOSE i \in 1..26 : CharAt(UpperChars, i) = c)]

\* str.lower() of one character
LowerChar(c) == IF c \in DOMAIN LowerTable THEN LowerTable[c] ELSE c

RECURSIVE StrLower(_)
\* str.lower()
StrLower(s) ==
    IF Len(s) = 0 THEN "" ELSE LowerChar(CharAt(s, 1)) \o StrLower(Tail(s))

\* the positions (0-based) at which sub occurs in s
Occurrences(s, sub) ==
    {i \in 0..(Len(s) - Len(sub)) : SubSeq(s, i + 1, i + Len(sub)) = sub}

\* `sub in s`
StrContains(s, sub) == Occurrences(s, sub) # {}

\* str.endswith(suffix)
StrEndsWith(s, suffix) ==
    /\ Len(suffix) <= Len(s)
    /\ SubSeq(s, Len(s) - Len(suffix) + 1, Len(s)) = suffix

Min(S) == CHOOSE x \in S : \A y \in S : x <= y

\* s.split(sep)[0]: the part of s before the first occurrence of sep
SplitFirst(s, sep) ==
    IF StrContains(s, sep) THEN SubSeq(s, 1, Min(Occurrences(s, sep))) ELSE s

RECURSIVE StrReplace(_, _, _)
\* str.replace(old, new), old non-empty, left to right, non-overlapping
StrReplace(s, old, new) ==
    IF ~StrContains(s, old) THEN s
    ELSE LET i == Min(Occurrences(s, old))
         IN  SubSeq(s, 1, i) \o new
               \o StrReplace(SubSeq(s, i + Len(old) + 1, Len(s)), old, new)

\* the value of every digit character
DigitTable ==
    [c \in {CharAt(DigitChars, i) : i \in 1..10} |->
        (CHOOSE i \in 1..10 : CharAt(DigitChars, i) = c) - 1]

IsDigitChar(c) == c \in DOMAIN DigitTable

\* str.isdigit(): non-empty and all characters are digits
StrIsDigit(s) ==
    /\ Len(s) > 0
    /\ \A i \in 1..Len(s) : IsDigitChar(CharAt(s, i))

DigitVal(c) == DigitTable[c]

RECURSIVE StrToInt(_)
\* int(s) for a string of digits
StrToInt(s) ==
    IF Len(s) = 0 THEN 0
    ELSE 10 * StrToInt(SubSeq(s, 1, Len(s) - 1)) + DigitVal(CharAt(s, Len(s)))

RECURSIVE StrSplitWs(_)
\* str.split(): the maximal runs of non-blank characters, in order
StrSplitWs(s) ==
    IF Len(s) = 0 THEN <<>>
    ELSE IF CharAt(s, 1) = " " THEN StrSplitWs(Tail(s))
    ELSE LET word == SplitFirst(s, " ")
         IN  <<word>> \o StrSplitWs(SubSeq(s, Len(word) + 1, Len(s)))

(***************************************************************************)
(* Python values: None, str, int, list, dict, each a record whose one      *)
(* field names its type.  A dict is a function from its keys (strings) to  *)
(* values.                                                                 *)
(***************************************************************************)
PyNone == [none |-> TRUE]
PyStr(s) == [str |-> s]
PyInt(n) == [int |-> n]
PyList(q) == [list |-> q]
PyDict(f) == [dict |-> f]

EmptyDict == <<>>

IsNone(x) == "none" \in DOMAIN x
IsStr(x) == "str" \in DOMAIN x
IsInt(x) == "int" \in DOMAIN x
IsList(x) == "list" \in DOMAIN x
IsDict(x) == "dict" \in DOMAIN x

\* bool(x)
Truthy(x) ==
    CASE IsNone(x) -> FALSE
      [] IsStr(x) -> Len(x.str) > 0
      [] IsInt(x) -> x.int # 0
      [] IsList(x) -> Len(x.list) > 0
      [] IsDict(x) -> DOMAIN x.dict # {}

\* `a or b`
PyOr(a, b) == IF Truthy(a) THEN a ELSE b

\* d.get(key)
Get(d, key) == IF key \in DOMAIN d THEN d[key] ELSE PyNone

\* d.get(key, default)
GetOr(d, key, default) == IF key \in DOMAIN d THEN d[key] ELSE default

(***************************************************************************)
(* datetime.strptime(s, '%Y:%m:%d %H:%M:%S') and datetime subtraction.     *)
(* Fields are matched as zero-padded digits, the form exiftool writes.     *)
(***************************************************************************)
IsLeap(y) == (y % 4 = 0) /\ ((y % 100 # 0) \/ (y % 400 = 0))

DaysInMonth(y, m) ==
    CASE m \in {1, 3, 5, 7, 8, 10, 12} -> 31
      [] m \in {4, 6, 9, 11} -> 30
      [] m = 2 -> IF IsLeap(y) THEN 29 ELSE 28

RECURSIVE DaysBeforeMonth(_, _)
DaysBeforeMonth(y, m) ==
    IF m = 1 THEN 0 ELSE DaysBeforeMonth(y, m - 1) + DaysInMonth(y, m - 1)

DaysBeforeYear(y) ==
    (y - 1) * 365 + ((y - 1) \div 4) - ((y - 1) \div 100) + ((y - 1) \div 400)

\* datetime.toordinal()
ToOrdinal(dt) == DaysBeforeYear(dt.year) + DaysBeforeMonth(dt.year, dt.month) + dt.day

\* (a - b).total_seconds()
TotalSeconds(a, b) ==
    (ToOrdinal(a) - ToOrdinal(b)) * 86400
      + (a.hour - b.hour) * 3600 + (a.minute - b.minute) * 60
      + (a.second - b.second)

Abs(n) == IF n < 0 THEN 0 - n ELSE n

StrptimeShape(s) ==
    /\ Len(s) = 19
    /\ \A i \in 1..19 :
          IF i \in {5, 8, 14, 17} THEN CharAt(s, i) = ":"
          ELSE IF i = 11 THEN CharAt(s, i) = " "
          ELSE IsDigitChar(CharAt(s, i))

StrptimeFields(s) ==
    [year |-> StrToInt(SubSeq(s, 1, 4)), month |-> StrToInt(SubSeq(s, 6, 7)),
     day |-> StrToInt(SubSeq(s, 9, 10)), hour |-> StrToInt(SubSeq(s, 12, 13)),
     minute |-> StrToInt(SubSeq(s, 15, 16)), second |-> StrToInt(SubSeq(s, 18, 19))]

\* TRUE iff strptime returns a datetime; otherwise it raises ValueError
StrptimeOk(s) ==
    /\ StrptimeShape(s)
    /\ LET f == StrptimeFields(s)
       IN  /\ f.year >= 1
           /\ f.month \in 1..12
           /\ f.day \in 1..DaysInMonth(f.year, f.month)
           /\ f.hour \in 0..23
           /\ f.minute \in 0..59
           /\ f.second \in 0..59

\* the datetime strptime returns (when StrptimeOk)
Strptime(s) == StrptimeFields(s)

(***************************************************************************)
(* Findings.  A finding keeps the code's level, status and finding label;  *)
(* its f-string (under "reason" or "details") is kept as the tuple of the  *)
(* values interpolated into it, in order.                                  *)
(***************************************************************************)
Finding(level, status, label, args) ==
    [level |-> level, status |-> status, finding |-> label, args |-> args]

(***************************************************************************)
(* Tier 1: _run_level_1_integrity_check.                                   *)
(***************************************************************************)
known_editors == <<"adobe", "gimp", "final cut", "premiere pro", "photoshop">>

\* any(editor in normalized_software_tag for editor in known_editors)
IsKnownEditor(normalized_software_tag) ==
    \E i \in 1..Len(known_editors) :
        StrContains(normalized_software_tag, known_editors[i])

\* the software-tag check: the findings it appends
Level1Software(md) ==
    LET software_tag == PyOr(Get(md, "EXIF:Software"), Get(md, "XMP:CreatorTool"))
    IN  IF Truthy(software_tag) /\ IsKnownEditor(StrLower(software_tag.str))
        THEN <<Finding(1, "FLAGGED", "Third-party software tag detected.",
                       <<software_tag>>)>>
        ELSE <<>>

\* create_date_str.split('+')[0].split('.')[0]
InternalDateMain(s) == SplitFirst(SplitFirst(s, "+"), ".")

\* file_mod_date.split('+')[0].split('-')[0].split('.')[0]
FileModDateMain(s) == SplitFirst(SplitFirst(SplitFirst(s, "+"), "-"), ".")

\* variant: the mismatch check fires at 60 seconds already
SignificantMismatch_AtSixty(modify_date, create_date) ==
    TotalSeconds(modify_date, create_date) >= 60

\* (modify_date - create_date).total_seconds() > 60
SignificantMismatch(modify_date, create_date) ==
    TotalSeconds(modify_date, create_date) > 60

\* modify_date < create_date
IllogicalOrder(modify_date, create_date) ==
    TotalSeconds(modify_date, create_date) < 0

\* variant: the file-system threshold is 24 seconds, not 24 hours
FsDiscrepancy_Seconds(fs_mod_date, create_date) ==
    Abs(TotalSeconds(fs_mod_date, create_date)) > 24

\* abs((fs_mod_date - create_date).total_seconds()) > (3600 * 24)
FsDiscrepancy(fs_mod_date, create_date) ==
    Abs(TotalSeconds(fs_mod_date, create_date)) > (3600 * 24)

\* the try block of the timestamp checks: the findings appended before it
\* ends, normally or in its except clause (ValueError from strptime)
Level1Timestamps(md) ==
    LET create_date_str == PyOr(Get(md, "EXIF:CreateDate"), Get(md, "QuickTime:CreateDate"))
        modify_date_str == PyOr(Get(md, "EXIF:ModifyDate"), Get(md, "QuickTime:ModifyDate"))
        file_mod_date == Get(md, "File:FileModifyDate")
        both == Truthy(create_date_str) /\ Truthy(modify_date_str)
        create_main == InternalDateMain(create_date_str.str)
        modify_main == InternalDateMain(modify_date_str.str)
        \* strptime raised inside `if create_date_str and modify_date_str`
        raised1 == both /\ (~StrptimeOk(create_main) \/ ~StrptimeOk(modify_main))
        create_date == Strptime(create_main)
        modify_date == Strptime(modify_main)
        significant == SignificantMismatch(modify_date, create_date)
        pair == IF both /\ ~raised1
                THEN IF significant
                     THEN <<Finding(1, "FLAGGED", "Significant timestamp mismatch.",
                                    <<modify_date, create_date>>)>>
                     ELSE IF IllogicalOrder(modify_date, create_date)
                     THEN <<Finding(1, "FLAGGED", "Illogical timestamp order.",
                                    <<modify_date, create_date>>)>>
                     ELSE <<>>
                ELSE <<>>
        fs_entered == ~raised1 /\ Truthy(file_mod_date) /\ Truthy(create_date_str)
        fs_main == FileModDateMain(file_mod_date.str)
        fs_mod_date == Strptime(fs_main)
        \* 'create_date' in locals(): the first block ran and parsed create_date
        fs == IF fs_entered /\ StrptimeOk(fs_main) /\ both
                 /\ FsDiscrepancy(fs_mod_date, create_date)
              THEN <<Finding(1, "FLAGGED", "File system modification date discrepancy.",
                             <<fs_mod_date, create_date>>)>>
              ELSE <<>>
    IN  pair \o fs

Level1Clean(is_flagged) ==
    IF ~is_flagged
    THEN <<Finding(1, "CLEAN", "High confidence of being an unaltered camera original.", <<>>)>>
    ELSE <<>>

\* variant: the timestamp checks append their findings without setting is_flagged
Level1IsFlagged_SoftwareOnly(software, timestamps) == Len(software) > 0

\* is_flagged at `if not is_flagged`: set beside every FLAGGED append
Level1IsFlagged(software, timestamps) == Len(software) > 0 \/ Len(timestamps) > 0

\* What one run of Tier 1 does: the findings it appends, and what it returns
Level1(md) ==
    LET software == Level1Software(md)
        timestamps == Level1Timestamps(md)
        is_flagged == Level1IsFlagged(software, timestamps)
    IN  [findings |-> software \o timestamps \o Level1Clean(is_flagged),
         ret |-> is_flagged]

(***************************************************************************)
(* The knowledge base: the JSON object of database/devices.json, kept as   *)
(* the sequence of its (name, profile) items in insertion order, names     *)
(* unique.                                                                 *)
(***************************************************************************)
Item(name, profile) == [name |-> name, profile |-> profile]

\* `name in knowledge_base`
KbHas(kb, name) == \E i \in 1..Len(kb) : kb[i].name = name

\* knowledge_base[name]
KbGet(kb, name) == kb[CHOOSE i \in 1..Len(kb) : kb[i].name = name].profile

(***************************************************************************)
(* Tier 2: _run_level_2_knowledge_based_analysis.                          *)
(***************************************************************************)
\* model = metadata.get('EXIF:Model') or metadata.get('QuickTime:Model')
ModelTag(md) == PyOr(Get(md, "EXIF:Model"), Get(md, "QuickTime:Model"))

\* model.replace('Apple ', '').replace('Google ', '') if model else None
NormalizedModel(model) ==
    IF Truthy(model)
    THEN PyStr(StrReplace(StrReplace(model.str, "Apple ", ""), "Google ", ""))
    ELSE PyNone

\* device_profile after the lookup: normalized name first, raw name second
DeviceProfile(md, kb) ==
    LET model == ModelTag(md)
        normalized_model == NormalizedModel(model)
    IN  IF Truthy(normalized_model) /\ KbHas(kb, normalized_model.str)
        THEN KbGet(kb, normalized_model.str)
        ELSE IF Truthy(model) /\ KbHas(kb, model.str)
        THEN KbGet(kb, model.str)
        ELSE PyNone

Level2Unknown(md) ==
    LET model == ModelTag(md)
    IN  <<Finding(2, "UNKNOWN_DEVICE", "Cannot perform knowledge-based check.",
                  <<IF Truthy(model) THEN model ELSE PyStr("N/A")>>)>>

\* variant: the codec identifier is compared as it is written
Level2Codec_CaseSensitive(md, expected_video_codec_default) ==
    LET model == ModelTag(md)
        file_codec_id == Get(md, "QuickTime:CompressorID")
        file_mime_type == Get(md, "File:MIMEType")
        expected == expected_video_codec_default
        mismatch == <<Finding(2, "INCONSISTENCY_DETECTED", "Video codec mismatch.",
                              <<file_codec_id, model, PyStr(expected)>>)>>
    IN  IF Truthy(file_mime_type) /\ StrContains(file_mime_type.str, "video")
        THEN IF Len(expected) > 0 /\ Truthy(file_codec_id)
             THEN IF /\ StrContains(expected, "hevc")
                     /\ file_codec_id.str \notin {"hev1", "hvc1"}
                  THEN mismatch
                  ELSE IF /\ StrContains(expected, "h.264/avc")
                          /\ file_codec_id.str \notin {"avc1", "mp4v"}
                  THEN mismatch
                  ELSE <<>>
             ELSE IF Len(expected) > 0 /\ ~Truthy(file_codec_id)
             THEN <<Finding(2, "INCONSISTENCY_DETECTED",
                            "Video codec missing from metadata.", <<model>>)>>
             ELSE <<>>
        ELSE <<>>

\* Check 1: the codec findings, given the lower-cased video_codec_default
Level2Codec(md, expected_video_codec_default) ==
    LET model == ModelTag(md)
        file_codec_id == Get(md, "QuickTime:CompressorID")
        file_mime_type == Get(md, "File:MIMEType")
        expected == expected_video_codec_default
        mismatch == <<Finding(2, "INCONSISTENCY_DETECTED", "Video codec mismatch.",
                              <<file_codec_id, model, PyStr(expected)>>)>>
    IN  IF Truthy(file_mime_type) /\ StrContains(file_mime_type.str, "video")
        THEN IF Len(expected) > 0 /\ Truthy(file_codec_id)
             THEN IF /\ StrContains(expected, "hevc")
                     /\ StrLower(file_codec_id.str) \notin {"hev1", "hvc1"}
                  THEN mismatch
                  ELSE IF /\ StrContains(expected, "h.264/avc")
                          /\ StrLower(file_codec_id.str) \notin {"avc1", "mp4v"}
                  THEN mismatch
                  ELSE <<>>
             ELSE IF Len(expected) > 0 /\ ~Truthy(file_codec_id)
             THEN <<Finding(2, "INCONSISTENCY_DETECTED",
                            "Video codec missing from metadata.", <<model>>)>>
             ELSE <<>>
        ELSE <<>>

\* not any(key.lower().endswith(f":{tag.lower()}") for key in metadata.keys())
TagMissing(md, tag) ==
    ~\E key \in DOMAIN md : StrEndsWith(StrLower(key), ":" \o StrLower(tag))

\* missing_tags: the expected tags that are missing, in profile order
MissingTags(md, tags) == SelectSeq(tags, LAMBDA tag : TagMissing(md, tag))

\* missing_tags[:3]
FirstThree(q) == SubSeq(q, 1, IF Len(q) < 3 THEN Len(q) ELSE 3)

\* len(missing_tags) > 2
\* variant: two missing tags are already too many
TooManyMissing_AtTwo(missing_tags) == Len(missing_tags) >= 2

TooManyMissing(missing_tags) == Len(missing_tags) > 2

\* Check 2: the finding for missing expected tags
Level2Tags(md, tags) ==
    LET missing_tags == MissingTags(md, tags)
    IN  IF TooManyMissing(missing_tags)
        THEN <<Finding(2, "INCONSISTENCY_DETECTED", "Expected metadata tags are missing.",
                       <<ModelTag(md), FirstThree(missing_tags)>>)>>
        ELSE <<>>

\* variant: the comparison the other way round
BeforeRelease_Swapped(create_year, release_year) ==
    IsInt(release_year) /\ release_year.int < create_year

\* create_year < device_profile['release_year']; the comparison of an int
\* with None or a str raises TypeError, which the except clause swallows
BeforeRelease(create_year, release_year) ==
    IsInt(release_year) /\ create_year < release_year.int

\* Check 3: the finding for a creation year before the release year
Level2Date(md, device_profile) ==
    LET create_date_str == PyOr(Get(md, "EXIF:CreateDate"), Get(md, "QuickTime:CreateDate"))
        main == InternalDateMain(create_date_str.str)
        create_year == Strptime(main).year
    IN  IF /\ Truthy(create_date_str)
           /\ "release_year" \in DOMAIN device_profile.dict
           /\ StrptimeOk(main)
           /\ BeforeRelease(create_year, device_profile.dict["release_year"])
        THEN <<Finding(2, "MAJOR_DISCREPANCY_DETECTED", "File created before device release.",
                       <<PyInt(create_year), device_profile.dict["release_year"], ModelTag(md)>>)>>
        ELSE <<>>

\* What one run of Tier 2 does: the findings it appends, and how it ends:
\* it returns `ret`, or raises `raised` (which nothing in analyze catches).
Level2(md, kb) ==
    LET device_profile == DeviceProfile(md, kb)
        codec_default == GetOr(device_profile.dict, "video_codec_default", PyStr(""))
        tags == GetOr(device_profile.dict, "expected_metadata_tags", PyList(<<>>))
        codec == Level2Codec(md, StrLower(codec_default.str))
        checks == codec \o Level2Tags(md, tags.list) \o Level2Date(md, device_profile)
    IN  IF ~Truthy(device_profile)
        THEN [findings |-> Level2Unknown(md), ret |-> FALSE, raised |-> "none"]
        \* device_profile.get('video_codec_default', '').lower() on a non-str
        ELSE IF ~IsStr(codec_default)
        THEN [findings |-> <<>>, ret |-> FALSE, raised |-> "AttributeError"]
        \* for tag in device_profile.get('expected_metadata_tags', []) on None
        ELSE IF ~IsList(tags)
        THEN [findings |-> codec, ret |-> FALSE, raised |-> "TypeError"]
        ELSE [findings |-> checks, ret |-> Len(checks) > 0, raised |-> "none"]

(***************************************************************************)
(* Tier 3: _run_level_3_advanced_heuristics.                               *)
(***************************************************************************)
Max(S) == CHOOSE x \in S : \A y \in S : x >= y

\* Path.suffix of a file name: from its last dot on, "" without one
PathSuffix(name) ==
    LET dots == {i \in 2..Len(name) : CharAt(name, i) = "."}
    IN  IF dots = {} THEN "" ELSE SubSeq(name, Max(dots), Len(name))

RECURSIVE Flatten(_)
\* [item for sublist in q for item in sublist], q a sequence of lists
Flatten(q) == IF Len(q) = 0 THEN <<>> ELSE Head(q).list \o Flatten(Tail(q))

\* qt_values, or TypeError (ok = FALSE) from flattening a list that mixes
\* numbers and lists; the except clause of Tier 3 swallows it
QtValues(jpeg_qt_tag) ==
    IF IsStr(jpeg_qt_tag)
    THEN LET words == StrSplitWs(StrReplace(jpeg_qt_tag.str, ",", " "))
             digits == SelectSeq(words, StrIsDigit)
         IN  [ok |-> TRUE, values |-> [i \in 1..Len(digits) |-> PyInt(StrToInt(digits[i]))]]
    ELSE IF IsList(jpeg_qt_tag) /\ \A i \in 1..Len(jpeg_qt_tag.list) : IsInt(jpeg_qt_tag.list[i])
    THEN [ok |-> TRUE, values |-> jpeg_qt_tag.list]
    ELSE IF IsList(jpeg_qt_tag) /\ \E i \in 1..Len(jpeg_qt_tag.list) : IsList(jpeg_qt_tag.list[i])
    THEN IF \A i \in 1..Len(jpeg_qt_tag.list) : IsList(jpeg_qt_tag.list[i])
         THEN [ok |-> TRUE, values |-> Flatten(jpeg_qt_tag.list)]
         ELSE [ok |-> FALSE, values |-> <<>>]
    ELSE [ok |-> TRUE, values |-> <<>>]

\* sum(1 for a, b in zip(qt_values, flattened_known_qt) if a == b)
MatchCount(qt_values, flattened_known_qt) ==
    Cardinality({i \in 1..Len(qt_values) : qt_values[i] = flattened_known_qt[i]})

\* match_percentage > 95, match_percentage = matches / total * 100 (exact)
StrongMatch(matches, total) == matches * 100 > 95 * total

RECURSIVE Level3Scan(_, _, _)
\* the loop over knowledge_base.items() from item i on: the finding it
\* appends, and the exception that leaves it (none, or one that is not
\* ValueError or TypeError and so propagates)
Level3Scan(kb, i, qt_values) ==
    IF i > Len(kb) THEN [findings |-> <<>>, raised |-> "none"]
    ELSE
    LET software_name == kb[i].name
        software_profile == kb[i].profile
        fingerprints == software_profile.dict["fingerprints"]
        tables_entry == GetOr(fingerprints.dict, "jpeg_quantization_tables", PyDict(EmptyDict))
        known_qt == Get(tables_entry.dict, "tables")
        flattened_known_qt == Flatten(known_qt.list)
        matches == MatchCount(qt_values, flattened_known_qt)
        next == Level3Scan(kb, i + 1, qt_values)
    IN  IF ~(/\ Get(software_profile.dict, "type") = PyStr("Software")
             /\ "fingerprints" \in DOMAIN software_profile.dict)
        THEN next
        \* software_profile['fingerprints'].get(...) on None
        ELSE IF ~IsDict(fingerprints)
        THEN [findings |-> <<>>, raised |-> "AttributeError"]
        \* .get('jpeg_quantization_tables', {}).get('tables') on None
        ELSE IF ~IsDict(tables_entry)
        THEN [findings |-> <<>>, raised |-> "AttributeError"]
        ELSE IF ~Truthy(known_qt)
        THEN next
        \* flattening a table whose rows are not lists: TypeError, swallowed
        ELSE IF ~(IsList(known_qt) /\ \A j \in 1..Len(known_qt.list) : IsList(known_qt.list[j]))
        THEN [findings |-> <<>>, raised |-> "none"]
        ELSE IF Len(qt_values) # Len(flattened_known_qt)
        THEN next
        \* ... / len(qt_values) * 100 with both tables empty
        ELSE IF Len(qt_values) = 0
        THEN [findings |-> <<>>, raised |-> "ZeroDivisionError"]
        ELSE IF StrongMatch(matches, Len(qt_values))
        THEN [findings |->
                <<Finding(3, "CONFIRMATION", "Low-level software fingerprint detected.",
                          <<[matches |-> matches, total |-> Len(qt_values)],
                            PyStr(software_name)>>)>>,
              raised |-> "none"]
        ELSE next

\* What one run of Tier 3 does: the findings it appends, and the exception
\* that propagates out of it ("none" when it returns)
Level3(md, kb, path) ==
    LET file_extension == StrLower(PathSuffix(path))
        jpeg_qt_tag == Get(md, "EXIF:JPEGQTables")
        qt == QtValues(jpeg_qt_tag)
    IN  IF file_extension \in {".jpg", ".jpeg"} /\ Truthy(jpeg_qt_tag) /\ qt.ok
        THEN Level3Scan(kb, 1, qt.values)
        ELSE [findings |-> <<>>, raised |-> "none"]

\* variant of Tier 4: the two candidate statuses exchanged
Level4Findings_Exchanged(md, kb) ==
    LET model == PyOr(Get(md, "EXIF:Model"), Get(md, "QuickTime:Model"))
    IN  IF Truthy(model) /\ ~KbHas(kb, model.str)
        THEN <<Finding(4, "KNOWLEDGE_BASE_REVIEW_CANDIDATE",
                       "Existing device profile for review/enrichment.", <<model>>)>>
        ELSE IF Truthy(model) /\ KbHas(kb, model.str)
        THEN <<Finding(4, "KNOWLEDGE_BASE_CANDIDATE", "New device model identified.",
                       <<model>>)>>
        ELSE <<>>

(***************************************************************************)
(* Tier 4: _run_level_4_ai_knowledge_base_enrichment.                      *)
(***************************************************************************)
Level4Findings(md, kb) ==
    LET model == ModelTag(md)
    IN  IF Truthy(model) /\ ~KbHas(kb, model.str)
        THEN <<Finding(4, "KNOWLEDGE_BASE_CANDIDATE", "New device model identified.",
                       <<model>>)>>
        ELSE IF Truthy(model) /\ KbHas(kb, model.str)
        THEN <<Finding(4, "KNOWLEDGE_BASE_REVIEW_CANDIDATE",
                       "Existing device profile for review/enrichment.", <<model>>)>>
        ELSE <<>>

(***************************************************************************)
(* The report analyze returns.                                             *)
(***************************************************************************)
\* variant: only INCONSISTENCY_DETECTED findings count
AnyFlagging_InconsistencyOnly(findings) ==
    \E i \in 1..Len(findings) : findings[i].status = "INCONSISTENCY_DETECTED"

\* any(item['status'] == 'FLAGGED' or item['status'] == 'INCONSISTENCY_DETECTED' ...)
AnyFlagging(findings) ==
    \E i \in 1..Len(findings) :
        findings[i].status = "FLAGGED" \/ findings[i].status = "INCONSISTENCY_DETECTED"

AnalysisSummary(level1_flagged, findings) ==
    [level1_status |-> IF level1_flagged THEN "FLAGGED" ELSE "CLEAN",
     overall_status |-> IF AnyFlagging(findings) THEN "FLAGGED" ELSE "CLEAN"]

Report(findings, md, level1_flagged) ==
    [forensic_narrative |-> findings,
     full_metadata |-> md,
     analysis_summary |-> AnalysisSummary(level1_flagged, findings)]

ErrorReport(details) ==
    [error |-> "Could not extract metadata from file.", details |-> details]

(***************************************************************************)
(* Inputs: the knowledge-base file the analyzer is constructed over, and   *)
(* the files it is asked to analyze (a name, and what exiftool returns).   *)
(***************************************************************************)
\* how many of ExtraTagKeys a metadata record may carry
MaxExtraTags == 2

Ints(q) == [i \in 1..Len(q) |-> PyInt(q[i])]

QtRow1 == <<16, 11, 10, 16, 24, 40, 51, 61, 12, 12>>
QtRow2 == <<14, 19, 26, 58, 60, 55, 14, 13, 16, 24>>

PhotoshopProfile ==
    PyDict([type |-> PyStr("Software"), vendor |-> PyStr("Adobe"),
            fingerprints |-> PyDict([jpeg_quantization_tables |->
                PyDict([tables |-> PyList(<<PyList(Ints(QtRow1)), PyList(Ints(QtRow2))>>)])])])

\* a knowledge base with complete profiles
KbMain ==
    << Item("iPhone 15 Pro",
            PyDict([release_year |-> PyInt(2023), known_software_pattern |-> PyStr("iOS"),
                    video_codec_default |-> PyStr("HEVC"), audio_codec_default |-> PyStr("AAC"),
                    expected_metadata_tags |-> PyList(<<"Make", "Model", "CreateDate",
                                                        "LensModel", "FNumber">>)])),
       Item("Canon EOS 5D Mark IV",
            PyDict([release_year |-> PyInt(2016), known_software_pattern |-> PyStr("Canon"),
                    expected_metadata_tags |-> PyList(<<"Make", "Model", "LensInfo",
                                                        "ShutterSpeedValue">>)])),
       Item("Google Pixel 8",
            PyDict([release_year |-> PyInt(2023), video_codec_default |-> PyStr("H.264/AVC"),
                    expected_metadata_tags |-> PyList(<<"Make", "Model">>)])),
       Item("Adobe Photoshop 2024", PhotoshopProfile) >>

\* a knowledge base whose profiles leave optional fields out or null and
\* whose fingerprint templates are empty
KbSparse ==
    << Item("iPhone 15 Pro",
            PyDict([release_year |-> PyNone, video_codec_default |-> PyNone,
                    expected_metadata_tags |-> PyList(<<"Make", "Model">>)])),
       Item("Nokia 3310", PyDict(EmptyDict)),
       Item("Pixel 8", PyDict([release_year |-> PyInt(2023)])),
       Item("Legacy Editor",
            PyDict([type |-> PyStr("Software"),
                    fingerprints |-> PyDict([jpeg_quantization_tables |->
                        PyDict([tables |-> PyList(<<PyList(<<>>)>>)])])])),
       Item("Old Tool", PyDict([type |-> PyStr("Software"), fingerprints |-> PyNone])) >>

\* database/devices.json: absent, not JSON, or a JSON object
KbFiles ==
    { [state |-> "missing"], [state |-> "malformed"],
      [state |-> "json", content |-> KbMain], [state |-> "json", content |-> KbSparse] }

SoftwarePieces ==
    { EmptyDict,
      "EXIF:Software" :> PyStr("Adobe Photoshop 2024"),
      "EXIF:Software" :> PyStr("Apple iOS 17.5.1"),
      "XMP:CreatorTool" :> PyStr("GIMP 2.10") }

Times(create_key, create, modify_key, modify, file_mod) ==
    (IF create = "" THEN EmptyDict ELSE create_key :> PyStr(create))
      @@ (IF modify = "" THEN EmptyDict ELSE modify_key :> PyStr(modify))
      @@ (IF file_mod = "" THEN EmptyDict ELSE "File:FileModifyDate" :> PyStr(file_mod))

TimePieces ==
    { EmptyDict,
      Times("EXIF:CreateDate", "2024:06:01 10:00:00", "EXIF:ModifyDate", "2024:06:01 10:01:00", ""),
      Times("EXIF:CreateDate", "2024:06:01 10:00:00", "EXIF:ModifyDate", "2024:06:01 10:01:01", ""),
      Times("EXIF:CreateDate", "2024:06:01 10:00:00.0", "EXIF:ModifyDate", "2024:06:01 10:01:00.1", ""),
      Times("EXIF:CreateDate", "2024:06:01 10:00:00", "EXIF:ModifyDate", "2024:06:01 09:59:59", ""),
      Times("QuickTime:CreateDate", "2019:03:05 08:00:00", "QuickTime:ModifyDate", "2019:03:05 08:00:05", ""),
      Times("EXIF:CreateDate", "2019:03:05 08:00:00", "", "", "2024:06:03 10:00:01+02:00"),
      Times("EXIF:CreateDate", "2024:06:01 10:00:00", "EXIF:ModifyDate", "2024:06:01 10:01:00",
            "2024:06:01 10:00:30-05:00"),
      Times("EXIF:CreateDate", "2024:06:01 10:00:00", "EXIF:ModifyDate", "2024:06:01 10:01:00",
            "2024:06:03 10:00:01+02:00"),
      Times("EXIF:CreateDate", "0000:00:00 00:00:00", "EXIF:ModifyDate", "2024:06:01 10:01:00",
            "2024:06:03 10:00:01+02:00"),
      Times("EXIF:CreateDate", "2024:06:01 10:00:00-05:00", "EXIF:ModifyDate",
            "2024:06:01 12:00:00-05:00", "") }

ModelPieces ==
    { EmptyDict,
      "EXIF:Model" :> PyStr("Nokia 3310"),
      "EXIF:Model" :> PyStr("Apple iPhone 15 Pro"),
      "QuickTime:Model" :> PyStr("Canon EOS 5D Mark IV"),
      "EXIF:Model" :> PyStr("Google Pixel 8") }

ExtraTagKeys == <<"EXIF:Make", "XMP:lensmodel", "EXIF:FNumber", "EXIF:LensInfo">>

\* the records carrying the first k extra tags, k up to MaxExtraTags
ExtraPieces ==
    { [key \in {ExtraTagKeys[i] : i \in 1..k} |-> PyStr("x")] : k \in 0..MaxExtraTags }

\* a media file: its name, and the format-specific tags exiftool reports
Media(name, tags) == [name |-> name, tags |-> tags]

MediaPieces ==
    { Media("clip.mp4", ("File:MIMEType" :> PyStr("video/mp4"))
                          @@ ("QuickTime:CompressorID" :> PyStr("hev1"))),
      Media("clip.mp4", ("File:MIMEType" :> PyStr("video/mp4"))
                          @@ ("QuickTime:CompressorID" :> PyStr("AVC1"))),
      Media("clip.mp4", "File:MIMEType" :> PyStr("video/mp4")),
      Media("IMG_0001.JPG", "File:MIMEType" :> PyStr("image/jpeg")),
      Media("IMG_0001.JPG", "EXIF:JPEGQTables" :>
                PyStr("16 11 10 16 24 40 51 61 12 12,14,19,26,58,60,55,14,13,16,24")),
      Media("photo.jpeg", "EXIF:JPEGQTables" :>
                PyList(Ints(QtRow1 \o <<14, 19, 26, 58, 60, 55, 14, 13, 16, 99>>))),
      Media("photo.jpeg", "EXIF:JPEGQTables" :> PyStr("n/a")),
      Media("scan.png", "EXIF:JPEGQTables" :> PyList(<<PyList(Ints(QtRow1)), PyList(Ints(QtRow2))>>)) }

\* the files analyze may be called on whose extraction succeeds
Files ==
    { [name |-> media.name,
       metadata |-> sw @@ tm @@ mo @@ ex @@ media.tags] :
         sw \in SoftwarePieces, tm \in TimePieces, mo \in ModelPieces,
         ex \in ExtraPieces, media \in MediaPieces }

\* the messages of the exceptions extraction may fail with
ExtractionErrors == {"File not found", "exiftool not found"}

(***************************************************************************)
(* The analyzer.                                                           *)
(***************************************************************************)
\* _load_knowledge_base: {} when the file is missing or is not valid JSON
LoadKnowledgeBase(file) == IF file.state = "json" THEN file.content ELSE <<>>

VARIABLE kb_file

\* TRUE in every call but the first the instance serves
VARIABLE reused

\* database/devices.json as it was when the call being served began
VARIABLE seen_file

(***************************************************************************)
(* update_knowledge_base of src/src/ai_integrations.py.  Two calls of it   *)
(* may be in progress in the process that holds the analyzer.  A call      *)
(* keeps its arguments, its local current_kb and the exception its except  *)
(* clause caught ("none" if none).                                         *)
(*                                                                         *)
(* ai_integrations.py binds no KNOWLEDGE_BASE_PATH of its own (the         *)
(* constant is defined in metadata-analyzer.py, line 11), so whether the   *)
(* name resolves at lines 139 and 150 depends on the namespace the         *)
(* function runs in: kb_path_bound.  Unbound, line 139 raises NameError.   *)
(***************************************************************************)
VARIABLES merges, kb_path_bound

(***************************************************************************)
(* The endpoints share one MetadataAnalyzer (app/main.py line 29,          *)
(* src/main.py line 19).  narrative, metadata and file_path are fields of  *)
(* that instance; the argument of analyze, its two flags and the report it *)
(* builds are locals of each invocation.  calls holds the locals of the    *)
(* invocations that run on the instance from two threads at once.          *)
(***************************************************************************)
VARIABLE calls

(***************************************************************************)
(* The report analyze returns holds the list and the dict the instance's   *)
(* fields narrative and metadata are bound to (lines 81-82), not copies.   *)
(* handed records the last report handed to a caller as it was returned,   *)
(* and whether the instance's fields are still bound to the objects it     *)
(* holds; a specification that does not look at returned reports keeps it  *)
(* unobserved.                                                             *)
(***************************************************************************)
VARIABLE handed

mergevars == <<merges, kb_path_bound>>

allvars == <<vars, kb_file, reused, seen_file, mergevars, calls, handed>>

MergeIds == {"first", "second"}

NoMerge ==
    [pc |-> "idle", model_name |-> "", inferred_profile |-> EmptyDict,
     current_kb |-> <<>>, raised |-> "none"]

\* __init__
CallIds == {"a", "b"}

\* an invocation that has not begun
NoCall ==
    [pc |-> "idle", arg |-> ".", is_level1_flagged |-> FALSE,
     is_level2_flagged_or_ambiguous |-> FALSE, report |-> PyNone, exc |-> "none"]

\* variant: lines 48-49 empty the list and the dict in place
Rebound_InPlace(h) == h

\* lines 48-49 bind the fields to a new list and a new dict
Rebound(h) ==
    IF h.observed THEN [h EXCEPT !.narrative_bound = FALSE, !.metadata_bound = FALSE] ELSE h

\* lines 80-87 put the objects the fields are bound to into the report
Handed(h, rep) ==
    IF h.observed
    THEN [observed |-> TRUE, report |-> rep, narrative_bound |-> TRUE, metadata_bound |-> TRUE]
    ELSE h

Init ==
    /\ kb_file \in KbFiles
    /\ knowledge_base = LoadKnowledgeBase(kb_file)
    /\ narrative = <<>>
    /\ metadata = EmptyDict
    /\ file_path = "."
    /\ pc = "idle"
    /\ ran = <<>>
    /\ is_level1_flagged = FALSE
    /\ is_level2_flagged_or_ambiguous = FALSE
    /\ report = PyNone
    /\ exc = "none"
    /\ reused = FALSE
    /\ seen_file = kb_file
    /\ merges = [m \in MergeIds |-> NoMerge]
    /\ kb_path_bound = FALSE
    /\ calls = [c \in CallIds |-> NoCall]
    /\ handed = [observed |-> FALSE]

\* the names analyze may be called with
FileNames == {media.name : media \in MediaPieces}

\* variant: a call begins without emptying the narrative of the call before
AnalyzeReset_KeepsNarrative ==
    /\ pc = "idle"
    /\ \E name \in FileNames : file_path' = name
    /\ metadata' = EmptyDict
    /\ pc' = "extract"
    /\ ran' = <<>>
    /\ is_level1_flagged' = FALSE
    /\ is_level2_flagged_or_ambiguous' = FALSE
    /\ report' = PyNone
    /\ exc' = "none"
    /\ reused' = (reused \/ report # PyNone \/ exc # "none")
    /\ seen_file' = kb_file
    /\ handed' = Rebound(handed)
    /\ UNCHANGED <<calls, mergevars, knowledge_base, kb_file, narrative>>

\* analyze, lines 48-50: a call begins and resets the instance's fields
AnalyzeReset ==
    /\ pc = "idle"
    /\ \E name \in FileNames : file_path' = name
    /\ narrative' = <<>>
    /\ metadata' = EmptyDict
    /\ pc' = "extract"
    /\ ran' = <<>>
    /\ is_level1_flagged' = FALSE
    /\ is_level2_flagged_or_ambiguous' = FALSE
    /\ report' = PyNone
    /\ exc' = "none"
    /\ reused' = (reused \/ report # PyNone \/ exc # "none")
    /\ seen_file' = kb_file
    /\ handed' = Rebound(handed)
    /\ UNCHANGED <<calls, mergevars, knowledge_base, kb_file>>

\* analyze, lines 52-56: extraction succeeds
AnalyzeExtract ==
    /\ pc = "extract"
    /\ \E file \in Files :
          /\ file.name = file_path
          /\ metadata' = file.metadata
    /\ pc' = "level1"
    /\ UNCHANGED <<handed, calls, mergevars, seen_file, knowledge_base, kb_file, reused, narrative, file_path, ran, is_level1_flagged,
                   is_level2_flagged_or_ambiguous, report, exc>>

\* analyze, lines 57-59: extraction raises and analyze returns the error shape
AnalyzeExtractFails ==
    /\ pc = "extract"
    /\ \E e \in ExtractionErrors : report' = PyDict(ErrorReport(e))
    /\ pc' = "idle"
    /\ UNCHANGED <<handed, calls, mergevars, seen_file, knowledge_base, kb_file, reused, narrative, metadata, file_path, ran,
                   is_level1_flagged, is_level2_flagged_or_ambiguous, exc>>

\* variant: Tier 2 follows Tier 1 whatever Tier 1 returned
AfterLevel1_Always(is_flagged) == "level2"

\* analyze, line 64: `if is_level1_flagged`
AfterLevel1(is_flagged) == IF is_flagged THEN "level2" ELSE "level4"

\* variant: Tier 3 follows Tier 2 whatever Tier 2 returned
AfterLevel2_Ungated(is_inconsistent) == "level3"

\* analyze, line 73: `if is_level2_flagged_or_ambiguous`
AfterLevel2(is_inconsistent) == IF is_inconsistent THEN "level3" ELSE "level4"

\* analyze, line 62
RunLevel1 ==
    /\ pc = "level1"
    /\ LET r == Level1(metadata)
       IN  /\ narrative' = narrative \o r.findings
           /\ is_level1_flagged' = r.ret
           /\ pc' = AfterLevel1(r.ret)
    /\ ran' = Append(ran, 1)
    /\ UNCHANGED <<handed, calls, mergevars, seen_file, knowledge_base, kb_file, reused, metadata, file_path,
                   is_level2_flagged_or_ambiguous, report, exc>>

\* analyze, lines 64-66; an exception of Tier 2 leaves analyze
RunLevel2 ==
    /\ pc = "level2"
    /\ LET r == Level2(metadata, knowledge_base)
       IN  /\ narrative' = narrative \o r.findings
           /\ ran' = Append(ran, 2)
           /\ IF r.raised # "none"
              THEN /\ exc' = r.raised
                   /\ pc' = "idle"
                   /\ UNCHANGED is_level2_flagged_or_ambiguous
              ELSE /\ is_level2_flagged_or_ambiguous' = r.ret
                   /\ pc' = AfterLevel2(r.ret)
                   /\ UNCHANGED exc
    /\ UNCHANGED <<handed, calls, mergevars, seen_file, knowledge_base, kb_file, reused, metadata, file_path, is_level1_flagged, report>>

\* variant: Tier 3 puts its findings in front of the narrative
RunLevel3_Prepends ==
    /\ pc = "level3"
    /\ LET r == Level3(metadata, knowledge_base, file_path)
       IN  /\ narrative' = r.findings \o narrative
           /\ ran' = Append(ran, 3)
           /\ exc' = r.raised
           /\ pc' = IF r.raised # "none" THEN "idle" ELSE "level4"
    /\ UNCHANGED <<handed, calls, mergevars, seen_file, knowledge_base, kb_file, reused, metadata, file_path, is_level1_flagged,
                   is_level2_flagged_or_ambiguous, report>>

\* analyze, lines 73-74; an exception of Tier 3 leaves analyze
RunLevel3 ==
    /\ pc = "level3"
    /\ LET r == Level3(metadata, knowledge_base, file_path)
       IN  /\ narrative' = narrative \o r.findings
           /\ ran' = Append(ran, 3)
           /\ exc' = r.raised
           /\ pc' = IF r.raised # "none" THEN "idle" ELSE "level4"
    /\ UNCHANGED <<handed, calls, mergevars, seen_file, knowledge_base, kb_file, reused, metadata, file_path, is_level1_flagged,
                   is_level2_flagged_or_ambiguous, report>>

\* variant: Tier 4 enrols the device it found in the in-memory knowledge base
RunLevel4_Enriches ==
    /\ pc = "level4"
    /\ narrative' = narrative \o Level4Findings(metadata, knowledge_base)
    /\ knowledge_base' = IF Level4Findings(metadata, knowledge_base) = <<>>
                         THEN knowledge_base
                         ELSE Append(knowledge_base, Item("candidate", EmptyDict))
    /\ ran' = Append(ran, 4)
    /\ pc' = "return"
    /\ UNCHANGED <<handed, calls, mergevars, seen_file, kb_file, reused, metadata, file_path, is_level1_flagged,
                   is_level2_flagged_or_ambiguous, report, exc>>

\* analyze, line 77
RunLevel4 ==
    /\ pc = "level4"
    /\ narrative' = narrative \o Level4Findings(metadata, knowledge_base)
    /\ ran' = Append(ran, 4)
    /\ pc' = "return"
    /\ UNCHANGED <<handed, calls, mergevars, seen_file, knowledge_base, kb_file, reused, metadata, file_path, is_level1_flagged,
                   is_level2_flagged_or_ambiguous, report, exc>>

\* analyze, lines 80-87
AnalyzeReturn ==
    /\ pc = "return"
    /\ report' = PyDict(Report(narrative, metadata, is_level1_flagged))
    /\ handed' = Handed(handed, report')
    /\ pc' = "idle"
    /\ UNCHANGED <<calls, mergevars, seen_file, knowledge_base, kb_file, reused, narrative, metadata, file_path, ran,
                   is_level1_flagged, is_level2_flagged_or_ambiguous, exc>>

Next ==
    \/ AnalyzeReset
    \/ AnalyzeExtract
    \/ AnalyzeExtractFails
    \/ RunLevel1
    \/ RunLevel2
    \/ RunLevel3
    \/ RunLevel4
    \/ AnalyzeReturn

Spec == Init /\ [][Next]_allvars

(***************************************************************************)
(* The process that holds the analyzer and merges profiles into            *)
(* database/devices.json with update_knowledge_base.  The file holds JSON  *)
(* text; it is kept as the object json.load returns for it, which for the  *)
(* values of this model (string keys; null, integer, string, array and     *)
(* object values) is the object json.dump was given.  A file being         *)
(* rewritten is empty from open(..., 'w') until json.dump has written it.  *)
(***************************************************************************)
\* dict.update
DictUpdate(d, e) ==
    [k \in DOMAIN d \cup DOMAIN e |-> IF k \in DOMAIN e THEN e[k] ELSE d[k]]

\* current_kb[name] = profile: in place for a key present, at the end otherwise
KbPut(kb, name, profile) ==
    IF KbHas(kb, name)
    THEN [i \in 1..Len(kb) |-> IF kb[i].name = name THEN Item(name, profile) ELSE kb[i]]
    ELSE Append(kb, Item(name, profile))

\* lines 142-148
MergeProfile(current_kb, model_name, inferred_profile) ==
    IF KbHas(current_kb, model_name)
    THEN KbPut(current_kb, model_name,
               PyDict(DictUpdate(KbGet(current_kb, model_name).dict, inferred_profile)))
    ELSE KbPut(current_kb, model_name, PyDict(inferred_profile))

\* the file after open(KNOWLEDGE_BASE_PATH, 'w'), and after a write that
\* stopped part-way: not a JSON document
TruncatedFile == [state |-> "malformed"]

\* the file after json.dump(current_kb, f, indent=2)
DumpedFile(current_kb) == [state |-> "json", content |-> current_kb]

\* the knowledge base the process starts over
KbSeed ==
    << Item("iPhone 15 Pro",
            PyDict([release_year |-> PyInt(2023),
                    video_codec_default |-> PyStr("HEVC"),
                    expected_metadata_tags |->
                        PyList(<<"Make", "Model", "CreateDate", "LensModel">>)])) >>

SeedFiles == { [state |-> "missing"], [state |-> "json", content |-> KbSeed] }

\* the arguments update_knowledge_base is called with
MergeNames == {"Nokia 3310", "iPhone 15 Pro"}

MergeProfiles ==
    { [release_year |-> PyInt(2000)],
      [release_year |-> PyNone, video_codec_default |-> PyStr("H.264/AVC")] }

\* the files analyzed by the process that merges
ProbeFiles ==
    { [name |-> "IMG_0001.JPG",
       metadata |-> ("EXIF:Software" :> PyStr("Adobe Photoshop 2024"))
                      @@ ("EXIF:Model" :> PyStr(model))
                      @@ ("EXIF:JPEGQTables" :> PyStr("n/a"))] :
         model \in MergeNames }

InitMerge ==
    /\ kb_file \in SeedFiles
    /\ knowledge_base = LoadKnowledgeBase(kb_file)
    /\ narrative = <<>>
    /\ metadata = EmptyDict
    /\ file_path = "."
    /\ pc = "idle"
    /\ ran = <<>>
    /\ is_level1_flagged = FALSE
    /\ is_level2_flagged_or_ambiguous = FALSE
    /\ report = PyNone
    /\ exc = "none"
    /\ reused = FALSE
    /\ seen_file = kb_file
    /\ merges = [m \in MergeIds |-> NoMerge]
    /\ kb_path_bound \in BOOLEAN
    /\ calls = [c \in CallIds |-> NoCall]
    /\ handed = [observed |-> FALSE]

\* analyze, lines 52-56, on one of the probe files
AnalyzeExtractProbe ==
    /\ pc = "extract"
    /\ \E file \in ProbeFiles :
          /\ file.name = file_path
          /\ metadata' = file.metadata
    /\ pc' = "level1"
    /\ UNCHANGED <<handed, calls, mergevars, seen_file, knowledge_base, kb_file, reused, narrative,
                   file_path, ran, is_level1_flagged, is_level2_flagged_or_ambiguous,
                   report, exc>>

\* update_knowledge_base is called: lines 131-136
MergeCall(m) ==
    /\ merges[m].pc = "idle"
    /\ \E name \in MergeNames, profile \in MergeProfiles :
          merges' = [merges EXCEPT ![m] =
                        [@ EXCEPT !.pc = "read", !.model_name = name,
                                  !.inferred_profile = profile]]
    /\ UNCHANGED <<vars, handed, calls, kb_file, reused, seen_file, kb_path_bound>>

\* the exception lines 139-140 raise, "none" if they load the file
ReadRaises(path_bound, file) ==
    IF ~path_bound THEN "NameError"
    ELSE IF file.state = "missing" THEN "FileNotFoundError"
    ELSE IF file.state = "malformed" THEN "JSONDecodeError"
    ELSE "none"

\* lines 139-140, and lines 153-154 when they raise
MergeRead(m) ==
    /\ merges[m].pc = "read"
    /\ LET raised == ReadRaises(kb_path_bound, kb_file)
       IN  merges' = [merges EXCEPT ![m] =
                         IF raised # "none"
                         THEN [@ EXCEPT !.pc = "done", !.raised = raised]
                         ELSE [@ EXCEPT !.pc = "modify", !.current_kb = kb_file.content]]
    /\ UNCHANGED <<vars, handed, calls, kb_file, reused, seen_file, kb_path_bound>>

\* lines 142-148
MergeModify(m) ==
    /\ merges[m].pc = "modify"
    /\ merges' = [merges EXCEPT ![m] =
                     [@ EXCEPT !.pc = "open",
                               !.current_kb = MergeProfile(@, merges[m].model_name,
                                                           merges[m].inferred_profile)]]
    /\ UNCHANGED <<vars, handed, calls, kb_file, reused, seen_file, kb_path_bound>>

\* line 150: the file is opened for writing, which empties it
MergeOpen(m) ==
    /\ merges[m].pc = "open"
    /\ kb_file' = TruncatedFile
    /\ merges' = [merges EXCEPT ![m].pc = "dump"]
    /\ UNCHANGED <<vars, handed, calls, reused, seen_file, kb_path_bound>>

\* line 151: json.dump writes the whole document
MergeDump(m) ==
    /\ merges[m].pc = "dump"
    /\ kb_file' = DumpedFile(merges[m].current_kb)
    /\ merges' = [merges EXCEPT ![m].pc = "done"]
    /\ UNCHANGED <<vars, handed, calls, reused, seen_file, kb_path_bound>>

\* line 151 raises OSError after part of the document is written (device
\* full, file system error), and lines 153-154 log it
MergeDumpFails(m) ==
    /\ merges[m].pc = "dump"
    /\ kb_file' = TruncatedFile
    /\ merges' = [merges EXCEPT ![m] = [@ EXCEPT !.pc = "done", !.raised = "OSError"]]
    /\ UNCHANGED <<vars, handed, calls, reused, seen_file, kb_path_bound>>

NextMerge ==
    \/ AnalyzeReset
    \/ AnalyzeExtractProbe
    \/ AnalyzeExtractFails
    \/ RunLevel1
    \/ RunLevel2
    \/ RunLevel3
    \/ RunLevel4
    \/ AnalyzeReturn
    \/ \E m \in MergeIds : MergeCall(m)
    \/ \E m \in MergeIds : MergeRead(m)
    \/ \E m \in MergeIds : MergeModify(m)
    \/ \E m \in MergeIds : MergeOpen(m)
    \/ \E m \in MergeIds : MergeDump(m)
    \/ \E m \in MergeIds : MergeDumpFails(m)

SpecMerge == InitMerge /\ [][NextMerge]_allvars

(***************************************************************************)
(* Two invocations of analyze on the shared instance, from two threads.    *)
(* Each statement group of analyze is one step; between two steps of one   *)
(* invocation the other may take any number of its own.  Every step reads  *)
(* and writes self.narrative, self.metadata and self.file_path, as the     *)
(* code does, whichever invocation assigned them last.                     *)
(***************************************************************************)

\* the files on disk the two invocations are given
SharedFiles ==
    { [name |-> "IMG_0001.JPG",
       metadata |-> ("EXIF:Software" :> PyStr("Adobe Photoshop 2024"))
                      @@ ("EXIF:Model" :> PyStr("Nokia 3310"))],
      [name |-> "IMG_0002.JPG",
       metadata |-> ("EXIF:Model" :> PyStr("iPhone 15 Pro"))
                      @@ ("EXIF:Make" :> PyStr("Apple"))],
      [name |-> "clip.mov",
       metadata |-> ("QuickTime:Model" :> PyStr("iPhone 15 Pro"))
                      @@ ("XMP:CreatorTool" :> PyStr("GIMP 2.10"))] }

\* what exiftool returns for a path
FileAt(name) == CHOOSE file \in SharedFiles : file.name = name

InitShared ==
    /\ kb_file \in SeedFiles
    /\ knowledge_base = LoadKnowledgeBase(kb_file)
    /\ narrative = <<>>
    /\ metadata = EmptyDict
    /\ file_path = "."
    /\ pc = "idle"
    /\ ran = <<>>
    /\ is_level1_flagged = FALSE
    /\ is_level2_flagged_or_ambiguous = FALSE
    /\ report = PyNone
    /\ exc = "none"
    /\ reused = FALSE
    /\ seen_file = kb_file
    /\ merges = [m \in MergeIds |-> NoMerge]
    /\ kb_path_bound = FALSE
    /\ calls = [c \in CallIds |-> NoCall]
    /\ handed = [observed |-> FALSE]

\* what no invocation of analyze touches beyond the instance's three fields
sharedframe ==
    <<pc, ran, is_level1_flagged, is_level2_flagged_or_ambiguous, report, exc,
      knowledge_base, kb_file, reused, seen_file, mergevars, handed>>

\* analyze, lines 48-50, in invocation c
CallReset(c) ==
    /\ calls[c].pc = "idle"
    /\ \E file \in SharedFiles :
          /\ file_path' = file.name
          /\ calls' = [calls EXCEPT ![c].pc = "extract", ![c].arg = file.name]
    /\ narrative' = <<>>
    /\ metadata' = EmptyDict
    /\ UNCHANGED sharedframe

\* analyze, lines 52-56, in invocation c: file_path here is the parameter
CallExtract(c) ==
    /\ calls[c].pc = "extract"
    /\ metadata' = FileAt(calls[c].arg).metadata
    /\ calls' = [calls EXCEPT ![c].pc = "level1"]
    /\ UNCHANGED <<sharedframe, narrative, file_path>>

\* analyze, lines 57-59, in invocation c
CallExtractFails(c) ==
    /\ calls[c].pc = "extract"
    /\ \E e \in ExtractionErrors :
          calls' = [calls EXCEPT ![c].pc = "done",
                                 ![c].report = PyDict(ErrorReport(e))]
    /\ UNCHANGED <<sharedframe, narrative, metadata, file_path>>

\* analyze, line 62, in invocation c
CallLevel1(c) ==
    /\ calls[c].pc = "level1"
    /\ LET r == Level1(metadata)
       IN  /\ narrative' = narrative \o r.findings
           /\ calls' = [calls EXCEPT ![c].is_level1_flagged = r.ret,
                                     ![c].pc = AfterLevel1(r.ret)]
    /\ UNCHANGED <<sharedframe, metadata, file_path>>

\* analyze, lines 64-66, in invocation c
CallLevel2(c) ==
    /\ calls[c].pc = "level2"
    /\ LET r == Level2(metadata, knowledge_base)
       IN  /\ narrative' = narrative \o r.findings
           /\ calls' = IF r.raised # "none"
                       THEN [calls EXCEPT ![c].exc = r.raised, ![c].pc = "done"]
                       ELSE [calls EXCEPT ![c].is_level2_flagged_or_ambiguous = r.ret,
                                          ![c].pc = AfterLevel2(r.ret)]
    /\ UNCHANGED <<sharedframe, metadata, file_path>>

\* analyze, lines 73-74, in invocation c
CallLevel3(c) ==
    /\ calls[c].pc = "level3"
    /\ LET r == Level3(metadata, knowledge_base, file_path)
       IN  /\ narrative' = narrative \o r.findings
           /\ calls' = [calls EXCEPT ![c].exc = r.raised,
                                     ![c].pc = IF r.raised # "none" THEN "done" ELSE "level4"]
    /\ UNCHANGED <<sharedframe, metadata, file_path>>

\* analyze, line 77, in invocation c
CallLevel4(c) ==
    /\ calls[c].pc = "level4"
    /\ narrative' = narrative \o Level4Findings(metadata, knowledge_base)
    /\ calls' = [calls EXCEPT ![c].pc = "return"]
    /\ UNCHANGED <<sharedframe, metadata, file_path>>

\* analyze, lines 80-87, in invocation c
CallReturn(c) ==
    /\ calls[c].pc = "return"
    /\ calls' = [calls EXCEPT
                   ![c].report = PyDict(Report(narrative, metadata, calls[c].is_level1_flagged)),
                   ![c].pc = "done"]
    /\ UNCHANGED <<sharedframe, narrative, metadata, file_path>>

NextShared ==
    \E c \in CallIds :
       \/ CallReset(c)
       \/ CallExtract(c)
       \/ CallExtractFails(c)
       \/ CallLevel1(c)
       \/ CallLevel2(c)
       \/ CallLevel3(c)
       \/ CallLevel4(c)
       \/ CallReturn(c)

SpecShared == InitShared /\ [][NextShared]_allvars

(***************************************************************************)
(* The analyzer over files that differ in their software tags only: each   *)
(* of the two aliases Tier 1 reads is absent, empty, or holds one of the   *)
(* values below, in every combination.                                     *)
(***************************************************************************)

SoftwareValues ==
    {"", "Adobe Photoshop 2024", "PHOTOSHOP", "photoshop", "PhotoShop CS6",
     "GIMP 2.10", "Final Cut Pro", "Adobe Premiere Pro", "Apple iOS 17.5.1"}

SoftwareTags(exif_software, xmp_creator_tool) ==
    (IF exif_software = PyNone THEN EmptyDict ELSE "EXIF:Software" :> exif_software)
      @@ (IF xmp_creator_tool = PyNone THEN EmptyDict
          ELSE "XMP:CreatorTool" :> xmp_creator_tool)

\* an alias holds None, which stands for a tag the file lacks, or a value;
\* the device tag is absent or names a device of the seed
SoftwareFiles ==
    LET options == {PyNone} \cup {PyStr(v) : v \in SoftwareValues}
        models == {EmptyDict, "EXIF:Model" :> PyStr("iPhone 15 Pro")}
    IN  { [name |-> "IMG_0001.JPG", metadata |-> SoftwareTags(e, x) @@ mo] :
             e \in options, x \in options, mo \in models }

\* analyze, lines 52-56, on one of the software files
AnalyzeExtractSoftware ==
    /\ pc = "extract"
    /\ \E file \in SoftwareFiles :
          /\ file.name = file_path
          /\ metadata' = file.metadata
    /\ pc' = "level1"
    /\ UNCHANGED <<handed, calls, mergevars, seen_file, knowledge_base, kb_file, reused, narrative,
                   file_path, ran, is_level1_flagged, is_level2_flagged_or_ambiguous,
                   report, exc>>

NextSoftware ==
    \/ AnalyzeReset
    \/ AnalyzeExtractSoftware
    \/ AnalyzeExtractFails
    \/ RunLevel1
    \/ RunLevel2
    \/ RunLevel3
    \/ RunLevel4
    \/ AnalyzeReturn

SpecSoftware == InitShared /\ [][NextSoftware]_allvars

(***************************************************************************)
(* The analyzer over knowledge bases that hold several software            *)
(* fingerprints, and edited files of a known device that differ in their   *)
(* name and their quantization tables, so that Tier 3 runs and scans.      *)
(***************************************************************************)

\* a software profile with the given value under fingerprints / tables
FingerprintProfile(tables) ==
    PyDict([type |-> PyStr("Software"),
            fingerprints |-> PyDict([jpeg_quantization_tables |->
                PyDict([tables |-> tables])])])

QtRow2Near == <<14, 19, 26, 58, 60, 55, 14, 13, 16, 99>>

\* two profiles with the same template
KbTwoMatches ==
    KbSeed \o << Item("Adobe Photoshop 2024", PhotoshopProfile),
                 Item("Adobe Lightroom", PhotoshopProfile) >>

\* a template of another length in front of the matching one
KbShortFirst ==
    KbSeed \o << Item("Thumbnailer", FingerprintProfile(PyList(<<PyList(Ints(QtRow1))>>))),
                 Item("Adobe Photoshop 2024", PhotoshopProfile) >>

\* a template that differs in one value of twenty in front of the exact one
KbNearFirst ==
    KbSeed \o << Item("GIMP 2.10",
                      FingerprintProfile(PyList(<<PyList(Ints(QtRow1)),
                                                  PyList(Ints(QtRow2Near))>>))),
                 Item("Adobe Photoshop 2024", PhotoshopProfile) >>

\* a template stored as one flat list of numbers in front of the exact one
KbFlatFirst ==
    KbSeed \o << Item("Flat Tool", FingerprintProfile(PyList(Ints(QtRow1 \o QtRow2)))),
                 Item("Adobe Photoshop 2024", PhotoshopProfile) >>

FingerprintKbFiles ==
    { [state |-> "json", content |-> kb] :
         kb \in {KbTwoMatches, KbShortFirst, KbNearFirst, KbFlatFirst} }

\* what EXIF:JPEGQTables may hold; None stands for a file without the tag
FingerprintTables ==
    { PyNone,
      PyStr("16 11 10 16 24 40 51 61 12 12,14,19,26,58,60,55,14,13,16,24"),
      PyList(Ints(QtRow1 \o QtRow2Near)),
      PyList(<<PyList(Ints(QtRow1)), PyList(Ints(QtRow2))>>) }

FingerprintFiles ==
    { [name |-> name,
       metadata |-> ("EXIF:Software" :> PyStr("Adobe Photoshop 2024"))
                      @@ ("EXIF:Model" :> PyStr("iPhone 15 Pro"))
                      @@ (IF qt = PyNone THEN EmptyDict ELSE "EXIF:JPEGQTables" :> qt)] :
         name \in {"IMG_0001.JPG", "photo.jpeg", "scan.png"}, qt \in FingerprintTables }

InitFingerprint ==
    /\ kb_file \in FingerprintKbFiles
    /\ knowledge_base = LoadKnowledgeBase(kb_file)
    /\ narrative = <<>>
    /\ metadata = EmptyDict
    /\ file_path = "."
    /\ pc = "idle"
    /\ ran = <<>>
    /\ is_level1_flagged = FALSE
    /\ is_level2_flagged_or_ambiguous = FALSE
    /\ report = PyNone
    /\ exc = "none"
    /\ reused = FALSE
    /\ seen_file = kb_file
    /\ merges = [m \in MergeIds |-> NoMerge]
    /\ kb_path_bound = FALSE
    /\ calls = [c \in CallIds |-> NoCall]
    /\ handed = [observed |-> FALSE]

\* analyze, lines 52-56, on one of the fingerprint files
AnalyzeExtractFingerprint ==
    /\ pc = "extract"
    /\ \E file \in FingerprintFiles :
          /\ file.name = file_path
          /\ metadata' = file.metadata
    /\ pc' = "level1"
    /\ UNCHANGED <<handed, calls, mergevars, seen_file, knowledge_base, kb_file, reused, narrative,
                   file_path, ran, is_level1_flagged, is_level2_flagged_or_ambiguous,
                   report, exc>>

NextFingerprint ==
    \/ AnalyzeReset
    \/ AnalyzeExtractFingerprint
    \/ AnalyzeExtractFails
    \/ RunLevel1
    \/ RunLevel2
    \/ RunLevel3
    \/ RunLevel4
    \/ AnalyzeReturn

SpecFingerprint == InitFingerprint /\ [][NextFingerprint]_allvars

(***************************************************************************)
(* The same calls, with the last returned report observed.                 *)
(***************************************************************************)
InitHanded ==
    /\ kb_file \in FingerprintKbFiles
    /\ knowledge_base = LoadKnowledgeBase(kb_file)
    /\ narrative = <<>>
    /\ metadata = EmptyDict
    /\ file_path = "."
    /\ pc = "idle"
    /\ ran = <<>>
    /\ is_level1_flagged = FALSE
    /\ is_level2_flagged_or_ambiguous = FALSE
    /\ report = PyNone
    /\ exc = "none"
    /\ reused = FALSE
    /\ seen_file = kb_file
    /\ merges = [m \in MergeIds |-> NoMerge]
    /\ kb_path_bound = FALSE
    /\ calls = [c \in CallIds |-> NoCall]
    \* no report has been returned yet
    /\ handed = [observed |-> TRUE, report |-> PyNone,
                 narrative_bound |-> FALSE, metadata_bound |-> FALSE]

SpecHanded == InitHanded /\ [][NextFingerprint]_allvars

(***************************************************************************)
(* Vocabulary of the properties.                                           *)
(***************************************************************************)
\* tier n has run in the current call
RanTier(n) == \E i \in 1..Len(ran) : ran[i] = n

\* analyze has returned a report (not the extraction-failure shape)
HasReport == pc = "idle" /\ IsDict(report) /\ "forensic_narrative" \in DOMAIN report.dict

\* analyze has returned the extraction-failure shape
HasErrorShape == pc = "idle" /\ IsDict(report) /\ DOMAIN report.dict = {"error", "details"}

\* an exception has left analyze
Propagated == pc = "idle" /\ exc # "none"

\* Tier 2 has run and has returned (it did not raise)
Tier2Returned == RanTier(2) /\ (pc # "idle" \/ HasReport \/ RanTier(3))

ReportNarrative == report.dict.forensic_narrative

ReportSummary == report.dict.analysis_summary

\* the positions of the findings of a level with a status among `statuses`
Positions(findings, level, statuses) ==
    {i \in 1..Len(findings) : findings[i].level = level /\ findings[i].status \in statuses}

Has(findings, level, statuses) == Positions(findings, level, statuses) # {}

AllStatuses ==
    {"CLEAN", "FLAGGED", "UNKNOWN_DEVICE", "INCONSISTENCY_DETECTED",
     "MAJOR_DISCREPANCY_DETECTED", "CONFIRMATION", "KNOWLEDGE_BASE_CANDIDATE",
     "KNOWLEDGE_BASE_REVIEW_CANDIDATE", "KNOWLEDGE_BASE_UPDATED"}

Level2Inconsistency == {"INCONSISTENCY_DETECTED", "MAJOR_DISCREPANCY_DETECTED"}

\* the findings with a given label
Labelled(findings, label) == {i \in 1..Len(findings) : findings[i].finding = label}

(***************************************************************************)
(* C1  Escalation gating.  Tier 1 runs in every analysis; Tier 2 runs iff  *)
(* Tier 1 returned flagged; Tier 3 runs iff Tier 2 ran and returned true,  *)
(* and Tier 2 returns true exactly when it appended an                     *)
(* INCONSISTENCY_DETECTED or MAJOR_DISCREPANCY_DETECTED finding (an        *)
(* UNKNOWN_DEVICE finding alone never escalates).  So in every report a    *)
(* level-3 finding implies a level-2 inconsistency finding, which implies  *)
(* a level-1 FLAGGED finding.                                              *)
(***************************************************************************)
C1_EscalationGating ==
    /\ RanTier(2) => RanTier(1) /\ is_level1_flagged
    /\ RanTier(3) => RanTier(2) /\ is_level2_flagged_or_ambiguous
    /\ Tier2Returned =>
          (is_level2_flagged_or_ambiguous <=> Has(narrative, 2, Level2Inconsistency))
    /\ HasReport =>
          /\ RanTier(1)
          /\ RanTier(2) <=> is_level1_flagged
          /\ RanTier(3) <=> (RanTier(2) /\ is_level2_flagged_or_ambiguous)
          /\ Has(ReportNarrative, 3, AllStatuses)
                => Has(ReportNarrative, 2, Level2Inconsistency)
          /\ Has(ReportNarrative, 2, AllStatuses) => Has(ReportNarrative, 1, {"FLAGGED"})
          /\ (Has(ReportNarrative, 2, {"UNKNOWN_DEVICE"})
                /\ ~Has(ReportNarrative, 2, Level2Inconsistency)) => ~RanTier(3)

\* a report with a level-3 finding, reached through all three gates
C1_Witness ==
    /\ HasReport
    /\ ran = <<1, 2, 3, 4>>
    /\ Has(ReportNarrative, 3, {"CONFIRMATION"})

(***************************************************************************)
(* C2  No fault escapes analyze: every call ends by returning a            *)
(* well-formed report or the {error, details} shape; no exception          *)
(* propagates to the caller.                                               *)
(***************************************************************************)
C2_NoFaultEscapes ==
    /\ exc = "none"
    /\ (pc = "idle" /\ IsDict(report)) =>
          \/ HasErrorShape
          \/ DOMAIN report.dict = {"forensic_narrative", "full_metadata", "analysis_summary"}

\* the model tag is set and its raw or its normalized form is a key of the
\* knowledge base
ResolvedNamePresent ==
    LET model == ModelTag(metadata)
    IN  /\ Truthy(model)
        /\ \E i \in 1..Len(knowledge_base) :
              knowledge_base[i].name \in {model.str, NormalizedModel(model).str}

(***************************************************************************)
(* C3  Tier 4 runs in every analysis whose extraction succeeded and the    *)
(* report holds exactly one level-4 finding: KNOWLEDGE_BASE_CANDIDATE when *)
(* the resolved device name (normalized name first, raw name second) is    *)
(* absent from the knowledge base, KNOWLEDGE_BASE_REVIEW_CANDIDATE when it *)
(* is present; also when the metadata has no model tag.                    *)
(***************************************************************************)
C3_Tier4Always ==
    /\ (pc = "idle" /\ RanTier(1)) => RanTier(4)
    /\ HasReport =>
          /\ Cardinality(Positions(ReportNarrative, 4, AllStatuses)) = 1
          /\ IF ResolvedNamePresent
             THEN Has(ReportNarrative, 4, {"KNOWLEDGE_BASE_REVIEW_CANDIDATE"})
             ELSE Has(ReportNarrative, 4, {"KNOWLEDGE_BASE_CANDIDATE"})

(***************************************************************************)
(* C4  overall_status of a report is FLAGGED iff some finding of its       *)
(* forensic_narrative has status FLAGGED or INCONSISTENCY_DETECTED, else   *)
(* CLEAN (no other status counts); level1_status is FLAGGED iff Tier 1     *)
(* returned flagged, else CLEAN.                                           *)
(***************************************************************************)
C4_OverallStatus ==
    HasReport =>
       /\ ReportSummary.overall_status =
             IF \E i \in 1..Len(ReportNarrative) :
                   ReportNarrative[i].status \in {"FLAGGED", "INCONSISTENCY_DETECTED"}
             THEN "FLAGGED" ELSE "CLEAN"
       /\ ReportSummary.level1_status = IF is_level1_flagged THEN "FLAGGED" ELSE "CLEAN"

\* a report that holds a MAJOR_DISCREPANCY_DETECTED finding and no
\* INCONSISTENCY_DETECTED finding beside its FLAGGED ones
C4_Witness ==
    /\ HasReport
    /\ Has(ReportNarrative, 2, {"MAJOR_DISCREPANCY_DETECTED"})
    /\ ~Has(ReportNarrative, 2, {"INCONSISTENCY_DETECTED"})
    /\ ReportSummary.overall_status = "FLAGGED"

(***************************************************************************)
(* C5  Tier 1 returns flagged iff it appended a FLAGGED finding; it        *)
(* appends exactly one CLEAN finding iff it appended no FLAGGED finding;   *)
(* a level-1 CLEAN and a level-1 FLAGGED finding never share a narrative;  *)
(* every narrative has a level-1 finding once Tier 1 has run.              *)
(***************************************************************************)
C5_Tier1Flag ==
    LET flagged == Positions(narrative, 1, {"FLAGGED"})
        clean == Positions(narrative, 1, {"CLEAN"})
    IN  /\ RanTier(1) =>
              /\ is_level1_flagged <=> flagged # {}
              /\ Cardinality(clean) = IF flagged = {} THEN 1 ELSE 0
              /\ Positions(narrative, 1, AllStatuses) = flagged \cup clean
              /\ flagged \cup clean # {}
        /\ HasReport => Has(ReportNarrative, 1, {"CLEAN", "FLAGGED"})

\* Tier 1 has appended two FLAGGED findings, one of them from a timestamp check
C5_Witness ==
    /\ RanTier(1)
    /\ Cardinality(Positions(narrative, 1, {"FLAGGED"})) = 2
    /\ Labelled(narrative, "File system modification date discrepancy.") # {}

(***************************************************************************)
(* The timestamps of the metadata as Tier 1 reads them: the first alias    *)
(* present, the suffix after the seconds discarded, whole seconds.         *)
(***************************************************************************)
CreateTag == PyOr(Get(metadata, "EXIF:CreateDate"), Get(metadata, "QuickTime:CreateDate"))

ModifyTag == PyOr(Get(metadata, "EXIF:ModifyDate"), Get(metadata, "QuickTime:ModifyDate"))

FileModTag == Get(metadata, "File:FileModifyDate")

\* a - b in whole seconds, for parsable 'YYYY:MM:DD HH:MM:SS' strings
SecondsBetween(a, b) == TotalSeconds(Strptime(a), Strptime(b))

\* create and modify timestamps are both present and both parse
BothParse ==
    /\ Truthy(CreateTag) /\ StrptimeOk(InternalDateMain(CreateTag.str))
    /\ Truthy(ModifyTag) /\ StrptimeOk(InternalDateMain(ModifyTag.str))

\* modify - create in whole seconds, suffixes discarded
TruncatedDelta ==
    SecondsBetween(InternalDateMain(ModifyTag.str), InternalDateMain(CreateTag.str))

\* the file-system timestamp is absent, unparsable, or within 24 hours of create
FsWithinDay ==
    \/ ~Truthy(FileModTag)
    \/ ~StrptimeOk(FileModDateMain(FileModTag.str))
    \/ Abs(SecondsBetween(FileModDateMain(FileModTag.str),
                           InternalDateMain(CreateTag.str))) <= 86400

NoSoftwareAlias == DOMAIN metadata \cap {"EXIF:Software", "XMP:CreatorTool"} = {}

\* Tier 1 appended exactly one finding, and it is CLEAN
OneCleanFinding ==
    /\ Cardinality(Positions(narrative, 1, AllStatuses)) = 1
    /\ Has(narrative, 1, {"CLEAN"})

(***************************************************************************)
(* C6 as stated: without a software alias tag, with |modify - create| <=   *)
(* 60 seconds in either direction and no file-system discrepancy above 24  *)
(* hours, Tier 1 yields exactly one finding and it is CLEAN.               *)
(***************************************************************************)
C6_Original ==
    (RanTier(1) /\ NoSoftwareAlias /\ BothParse /\ Abs(TruncatedDelta) <= 60 /\ FsWithinDay)
       => OneCleanFinding

(***************************************************************************)
(* C6 amended: without a software alias tag, with 0 <= modify - create <=  *)
(* 60 seconds (modify not before create) and no file-system discrepancy    *)
(* above 24 hours, Tier 1 yields exactly one finding and it is CLEAN.      *)
(***************************************************************************)
C6_CleanWithinMinute ==
    (RanTier(1) /\ NoSoftwareAlias /\ BothParse /\ TruncatedDelta \in 0..60 /\ FsWithinDay)
       => OneCleanFinding

\* the case at the edge: modify 60 seconds after create, the file-system
\* timestamp present and within a day
C6_Witness ==
    /\ RanTier(1) /\ NoSoftwareAlias /\ BothParse /\ TruncatedDelta = 60
    /\ Truthy(FileModTag) /\ FsWithinDay
    /\ OneCleanFinding

(***************************************************************************)
(* The actual difference modify - create in tenths of a second, the first  *)
(* digit of each sub-second fraction counted.                              *)
(***************************************************************************)
FractionTenths(s) ==
    LET local == SplitFirst(s, "+")
        dots == Occurrences(local, ".")
    IN  IF dots = {} \/ Min(dots) + 2 > Len(local) THEN 0
        ELSE DigitVal(CharAt(local, Min(dots) + 2))

ActualDeltaTenths ==
    10 * TruncatedDelta + FractionTenths(ModifyTag.str) - FractionTenths(CreateTag.str)

MismatchFound == Labelled(narrative, "Significant timestamp mismatch.") # {}

(***************************************************************************)
(* C7 as stated: the mismatch finding is produced by strict > 60 seconds   *)
(* on the actual time difference: not at exactly 60.0 s, and at 60.1 s.    *)
(***************************************************************************)
C7_Original ==
    (RanTier(1) /\ BothParse) =>
       /\ ActualDeltaTenths = 600 => ~MismatchFound
       /\ ActualDeltaTenths = 601 => MismatchFound

(***************************************************************************)
(* C7 amended: the mismatch finding is produced by strict > 60 on the      *)
(* difference of the timestamps cut to whole seconds: not at 60 s, and at  *)
(* 61 s; an actual difference of 60.1 s whose whole seconds differ by 60   *)
(* does not produce it.                                                    *)
(***************************************************************************)
C7_WholeSecondBoundary ==
    (RanTier(1) /\ BothParse) => (MismatchFound <=> TruncatedDelta > 60)

\* modify is 60.1 seconds after create and Tier 1 reports no mismatch
C7_Witness ==
    /\ RanTier(1) /\ BothParse
    /\ ActualDeltaTenths = 601
    /\ TruncatedDelta = 60
    /\ ~MismatchFound

(***************************************************************************)
(* The device of the metadata as Tier 2 resolves it.                       *)
(***************************************************************************)
ResolvedProfile == DeviceProfile(metadata, knowledge_base)

\* a profile is resolved, its release_year is an integer, and the create
\* timestamp parses to a year strictly below it
CreatedBeforeRelease ==
    /\ Truthy(ResolvedProfile)
    /\ "release_year" \in DOMAIN ResolvedProfile.dict
    /\ IsInt(ResolvedProfile.dict.release_year)
    /\ Truthy(CreateTag)
    /\ StrptimeOk(InternalDateMain(CreateTag.str))
    /\ Strptime(InternalDateMain(CreateTag.str)).year < ResolvedProfile.dict.release_year.int

DeviceAbsent ==
    /\ Truthy(ModelTag(metadata))
    /\ ~KbHas(knowledge_base, ModelTag(metadata).str)
    /\ ~KbHas(knowledge_base, NormalizedModel(ModelTag(metadata)).str)

(***************************************************************************)
(* C9 as stated: for metadata whose model tag names a device absent from   *)
(* the knowledge base, the report contains a level-2 UNKNOWN_DEVICE        *)
(* finding and a level-4 KNOWLEDGE_BASE_CANDIDATE finding.                 *)
(***************************************************************************)
C9_Original ==
    (HasReport /\ DeviceAbsent) =>
       /\ Has(ReportNarrative, 2, {"UNKNOWN_DEVICE"})
       /\ Has(ReportNarrative, 4, {"KNOWLEDGE_BASE_CANDIDATE"})

(***************************************************************************)
(* C9 amended: for metadata whose model tag names a device absent from     *)
(* the knowledge base, analyze returns a report; the report contains a     *)
(* level-4 KNOWLEDGE_BASE_CANDIDATE finding, and it contains a level-2     *)
(* UNKNOWN_DEVICE finding exactly when Tier 1 flagged.                     *)
(***************************************************************************)
C9_UnknownDevice ==
    DeviceAbsent =>
       /\ (pc = "idle" /\ RanTier(1)) => HasReport
       /\ HasReport =>
             /\ Has(ReportNarrative, 4, {"KNOWLEDGE_BASE_CANDIDATE"})
             /\ Has(ReportNarrative, 2, {"UNKNOWN_DEVICE"}) <=> is_level1_flagged

\* Scenario B with Tier 1 flagged: both findings are in the report
C9_Witness ==
    /\ HasReport /\ DeviceAbsent
    /\ ModelTag(metadata) = PyStr("Nokia 3310")
    /\ Has(ReportNarrative, 2, {"UNKNOWN_DEVICE"})
    /\ Has(ReportNarrative, 4, {"KNOWLEDGE_BASE_CANDIDATE"})

(***************************************************************************)
(* The expected tags of the resolved profile that no metadata key ends     *)
(* with, as ':<tag>', letter case ignored; in profile order.               *)
(***************************************************************************)
KeyCarriesTag(key, tag) ==
    LET k == StrLower(key)
        t == ":" \o StrLower(tag)
    IN  Len(k) >= Len(t) /\ SubSeq(k, Len(k) - Len(t) + 1, Len(k)) = t

ExpectedTags ==
    IF "expected_metadata_tags" \in DOMAIN ResolvedProfile.dict
    THEN ResolvedProfile.dict.expected_metadata_tags.list ELSE <<>>

MissingExpected ==
    SelectSeq(ExpectedTags, LAMBDA tag : \A key \in DOMAIN metadata : ~KeyCarriesTag(key, tag))

MissingTagFindings == Labelled(narrative, "Expected metadata tags are missing.")

(***************************************************************************)
(* C10  With a resolved profile, once Tier 2 has run to its end: an        *)
(* expected tag counts as missing iff no metadata key ends with ':<tag>'   *)
(* case-insensitively; 2 or fewer missing tags emit no finding; 3 or more  *)
(* emit one level-2 INCONSISTENCY_DETECTED finding that lists the first 3  *)
(* missing tags in profile order.                                          *)
(***************************************************************************)
C10_MissingTags ==
    (Tier2Returned /\ Truthy(ResolvedProfile)) =>
       IF Len(MissingExpected) >= 3
       THEN /\ Cardinality(MissingTagFindings) = 1
            /\ \A i \in MissingTagFindings :
                  /\ narrative[i].level = 2
                  /\ narrative[i].status = "INCONSISTENCY_DETECTED"
                  /\ narrative[i].args[2] = SubSeq(MissingExpected, 1, 3)
       ELSE MissingTagFindings = {}

\* more than 3 expected tags are missing, one present tag lies between
\* them, and the finding lists 3
C10_Witness ==
    /\ Tier2Returned /\ Truthy(ResolvedProfile)
    /\ Len(MissingExpected) \in 4..(Len(ExpectedTags) - 1)
    /\ MissingExpected # SubSeq(ExpectedTags, 1, Len(MissingExpected))
    /\ \E i \in MissingTagFindings : Len(narrative[i].args[2]) = 3

\* exactly 2 expected tags are missing and Tier 2 says nothing about them
C10_WitnessTwo ==
    /\ Tier2Returned /\ Truthy(ResolvedProfile)
    /\ Len(MissingExpected) = 2
    /\ MissingTagFindings = {}

(***************************************************************************)
(* What analyze returns on a freshly constructed analyzer: the findings of *)
(* the tiers that run, in order, and the report over them.                 *)
(***************************************************************************)
AloneNarrative(md, kb, path) ==
    LET r1 == Level1(md)
        r2 == Level2(md, kb)
        r3 == Level3(md, kb, path)
    IN  r1.findings
          \o (IF r1.ret
              THEN r2.findings \o (IF r2.ret THEN r3.findings ELSE <<>>)
              ELSE <<>>)
          \o Level4Findings(md, kb)

AloneReport(md, kb, path) == Report(AloneNarrative(md, kb, path), md, Level1(md).ret)

(***************************************************************************)
(* C11  Determinism.  Whatever calls the instance served before, a call    *)
(* starts from an empty narrative and empty metadata, and the report it    *)
(* returns is the one a fresh analyzer returns for the same file, the      *)
(* same metadata and the same knowledge base: same findings, same order.   *)
(***************************************************************************)
C11_Determinism ==
    /\ pc = "extract" => (narrative = <<>> /\ metadata = EmptyDict)
    /\ HasReport =>
          /\ ReportNarrative = AloneNarrative(metadata, knowledge_base, file_path)
          /\ report.dict = AloneReport(metadata, LoadKnowledgeBase(kb_file), file_path)

\* a later call on a used instance has returned a report with findings of
\* all four tiers
C11_Witness ==
    /\ HasReport /\ reused
    /\ ran = <<1, 2, 3, 4>>
    /\ Has(ReportNarrative, 3, {"CONFIRMATION"})
    /\ Has(ReportNarrative, 4, AllStatuses)

(***************************************************************************)
(* Vocabulary of the merge properties.                                     *)
(***************************************************************************)
\* the knowledge base as a mapping: its set of (name, profile) items
KbItems(kb) == {kb[i] : i \in 1..Len(kb)}

\* the fields of a partial profile that are not null
NonNullFields(p) == [k \in {f \in DOMAIN p : ~IsNone(p[f])} |-> p[k]]

\* the prior profile of a name, empty if there is none
PriorProfile(kb, name) == IF KbHas(kb, name) THEN KbGet(kb, name).dict ELSE EmptyDict

\* merge(name, p) as specified: the non-null fields of p laid over the
\* prior profile of the name, every other profile untouched
SpecifiedMerge(kb, name, p) ==
    KbPut(kb, name, PyDict(DictUpdate(PriorProfile(kb, name), NonNullFields(p))))

OtherMerge(m) == CHOOSE o \in MergeIds : o # m

\* a call of update_knowledge_base has returned and no write of it failed
\* for a reason of the file system
Merged(m) == merges[m].pc = "done" /\ merges[m].raised # "OSError"

(***************************************************************************)
(* C12  Merge round trip.  After one merge(X, p) followed by load(), the   *)
(* knowledge base is the prior one with the profile of X replaced by the   *)
(* prior profile of X (empty if none) overlaid with only the non-null      *)
(* fields of p; fields p omits or sets to null are preserved and every     *)
(* other profile is unchanged.                                             *)
(***************************************************************************)
C12_MergeRoundTrip ==
    \A m \in MergeIds :
       (Merged(m) /\ merges[OtherMerge(m)].pc = "idle") =>
          KbItems(LoadKnowledgeBase(kb_file))
             = KbItems(SpecifiedMerge(knowledge_base, merges[m].model_name,
                                      merges[m].inferred_profile))

\* the profile persisted for the name of merge m holds every non-null field
\* merge m was given
EffectPersisted(m) ==
    LET kb == LoadKnowledgeBase(kb_file)
        name == merges[m].model_name
        p == NonNullFields(merges[m].inferred_profile)
    IN  /\ KbHas(kb, name)
        /\ \A k \in DOMAIN p :
              k \in DOMAIN KbGet(kb, name).dict /\ KbGet(kb, name).dict[k] = p[k]

\* two merges on different device names have both returned
BothMerged ==
    /\ \A m \in MergeIds : Merged(m)
    /\ merges["first"].model_name # merges["second"].model_name

\* whatever the two calls raised on the way, the persisted knowledge base
\* contains the effects of both
NoLostUpdate ==
    BothMerged => \A m \in MergeIds : EffectPersisted(m)

(***************************************************************************)
(* C13  Merges are serialized.  When two concurrent merges on different    *)
(* device names have both run to their end, under every interleaving of    *)
(* their read, modify and write steps, the persisted knowledge base        *)
(* contains the effects of both (no lost update).                          *)
(***************************************************************************)
C13_NoLostUpdate ==
    (BothMerged /\ \A m \in MergeIds : merges[m].raised = "none")
       => \A m \in MergeIds : EffectPersisted(m)

\* no call of update_knowledge_base is in progress
Quiescent == \A m \in MergeIds : merges[m].pc \in {"idle", "done"}

\* the process started over a valid, non-empty knowledge base
StoreWasValid == knowledge_base # <<>>

(***************************************************************************)
(* C14  The persisted knowledge base is valid JSON after every merge, and  *)
(* a merge whose write fails part-way leaves the previously persisted      *)
(* content intact: a load after it returns the pre-merge knowledge base.   *)
(***************************************************************************)
C14_ValidAfterMerge ==
    (StoreWasValid /\ Quiescent /\ \E m \in MergeIds : merges[m].pc = "done") =>
       /\ kb_file.state = "json"
       /\ \A m \in MergeIds :
             (merges[m].raised = "OSError" /\ merges[OtherMerge(m)].pc = "idle")
                => KbItems(LoadKnowledgeBase(kb_file)) = KbItems(knowledge_base)

\* the knowledge base committed to database/devices.json when the call being
\* served began, if a whole document was there
CommittedAtStart == seen_file.state = "json"

\* the call being served works on the snapshot loaded at construction
SeesLoadedSnapshot ==
    HasReport => ReportNarrative = AloneNarrative(metadata, knowledge_base, file_path)

(***************************************************************************)
(* C15  Merge visibility: an analysis never sees a partial state, and an   *)
(* analysis started after a merge has committed sees that merge's effects: *)
(* its report is the one computed over the knowledge base that was         *)
(* committed when the analysis began.                                      *)
(***************************************************************************)
C15_ReadYourWrites ==
    (HasReport /\ CommittedAtStart) =>
        ReportNarrative = AloneNarrative(metadata, seen_file.content, file_path)

\* the exception analyze raises when it runs alone, "none" when it returns
AloneRaised(md, kb, path) ==
    LET r1 == Level1(md)
        r2 == Level2(md, kb)
        r3 == Level3(md, kb, path)
    IN  IF ~r1.ret THEN "none"
        ELSE IF r2.raised # "none" THEN r2.raised
        ELSE IF r2.ret THEN r3.raised ELSE "none"

\* invocation c has ended after a successful extraction
CallAnalyzed(c) ==
    /\ calls[c].pc = "done"
    /\ ~(calls[c].report # PyNone /\ "error" \in DOMAIN calls[c].report.dict)

(***************************************************************************)
(* C16  Two concurrent analyze invocations on the shared instance do not   *)
(* interfere: under every interleaving each one ends as it would alone on  *)
(* its own file, with the same report (narrative, metadata, summary).      *)
(***************************************************************************)
C16_NoInterference ==
    \A c \in CallIds :
       CallAnalyzed(c) =>
          LET own == FileAt(calls[c].arg)
              alone == AloneRaised(own.metadata, knowledge_base, own.name)
          IN  /\ calls[c].exc = alone
              /\ alone = "none" =>
                    calls[c].report = PyDict(AloneReport(own.metadata, knowledge_base, own.name))

\* positions of analyze at which a tier check or the report is next
TierPositions == {"level1", "level2", "level3", "level4", "return"}

\* a step of update_knowledge_base is taken
MergeSteps == \E m \in MergeIds : merges'[m] # merges[m]

(***************************************************************************)
(* C17  Frame: no step of analyze and no tier check changes the in-memory  *)
(* knowledge base or the persisted one, and no tier changes the metadata   *)
(* record after extraction; the persisted knowledge base changes only in   *)
(* a step of the merge operation.                                          *)
(***************************************************************************)
C17_Frame ==
    [][ /\ knowledge_base' = knowledge_base
        /\ kb_file' # kb_file => MergeSteps
        /\ pc \in TierPositions => metadata' = metadata ]_allvars

\* an analysis has reported and a merge has rewritten the persisted knowledge
\* base, which now differs from the analyzer's
C17_Witness ==
    /\ HasReport
    /\ ran = <<1, 2, 4>>
    /\ \E m \in MergeIds : Merged(m) /\ merges[m].raised = "none"
    /\ kb_file.state = "json"
    /\ KbItems(kb_file.content) # KbItems(knowledge_base)

\* database/devices.json is missing or does not hold a JSON document
KbUnavailable == kb_file.state \in {"missing", "malformed"}

\* the findings of one level, in order
OfLevel(findings, level) == SelectSeq(findings, LAMBDA f : f.level = level)

\* with no knowledge base the load gives the empty mapping, every analysis
\* returns, Tier 1 reports what it reports on the metadata alone and Tier 2,
\* when it runs, reports UNKNOWN_DEVICE and nothing else
UnavailableDegrades ==
    KbUnavailable =>
       /\ knowledge_base = <<>>
       /\ ~Propagated
       /\ (pc = "idle" /\ RanTier(1)) => HasReport
       /\ HasReport =>
             /\ OfLevel(ReportNarrative, 1) = Level1(metadata).findings
             /\ RanTier(2) =>
                   /\ Len(OfLevel(ReportNarrative, 2)) = 1
                   /\ Has(ReportNarrative, 2, {"UNKNOWN_DEVICE"})

(***************************************************************************)
(* C18  Knowledge base unavailable: when the persisted knowledge base is   *)
(* missing or malformed the load gives an empty mapping, every analysis    *)
(* completes, Tier 1 finds what it finds with any knowledge base, Tier 2   *)
(* (when it runs) reports UNKNOWN_DEVICE, and Tier 4 reports a candidate   *)
(* outcome for every file.                                                 *)
(***************************************************************************)
C18_UnavailableKb ==
    /\ UnavailableDegrades
    /\ (KbUnavailable /\ HasReport) =>
          Has(ReportNarrative, 4, {"KNOWLEDGE_BASE_CANDIDATE"})

(***************************************************************************)
(* The two endpoints that hand the report of analyze to the caller.        *)
(***************************************************************************)

\* statuses generate_forensic_narrative does not count as issues
QuietStatuses == {"CLEAN", "KNOWLEDGE_BASE_CANDIDATE", "KNOWLEDGE_BASE_REVIEW_CANDIDATE"}

\* generate_forensic_narrative, the mocked branch: the fixed sentence when no
\* finding counts as an issue, else the heading and one line per issue (a
\* line is kept as the level, finding and status it is formatted from)
GenerateForensicNarrative(findings_list) ==
    LET flagged_findings ==
            SelectSeq(findings_list, LAMBDA f : f.status \notin QuietStatuses)
    IN  IF flagged_findings = <<>>
        THEN [text |-> "Mock AI Narrative: No significant tampering or inconsistencies detected.",
              lines |-> <<>>]
        ELSE [text |-> "Mock AI Narrative: Potential issues detected:",
              lines |-> [i \in 1..Len(flagged_findings) |->
                            <<flagged_findings[i].level, flagged_findings[i].finding,
                              flagged_findings[i].status>>]]

\* app/main.py, analyze_metadata: the body of the response for a report
AppAnalyzeMetadata(rep) ==
    LET final_narrative ==
            GenerateForensicNarrative(IF "forensic_narrative" \in DOMAIN rep
                                      THEN rep.forensic_narrative ELSE <<>>)
    IN  [k \in DOMAIN rep \cup {"forensic_narrative_ai_generated"} |->
            IF k = "forensic_narrative_ai_generated" THEN final_narrative ELSE rep[k]]

\* src/main.py, analyze_metadata: the body of the response for a report
SrcAnalyzeMetadata(rep) == rep

\* analyze has ended on a failed extraction
ExtractionFailed == pc = "idle" /\ IsDict(report) /\ "error" \in DOMAIN report.dict

\* a failed extraction gives exactly {error, details}, runs no tier and
\* appends no finding
ErrorShapeTerminal ==
    ExtractionFailed =>
       /\ DOMAIN report.dict = {"error", "details"}
       /\ report.dict.details \in ExtractionErrors
       /\ ran = <<>>
       /\ narrative = <<>>

(***************************************************************************)
(* C19  Extraction failure is terminal: analyze returns exactly the        *)
(* {error, details} shape, no tier runs, no finding is appended to the     *)
(* narrative, and the endpoints surface the error shape to the caller      *)
(* unchanged.                                                              *)
(***************************************************************************)
C19_ExtractionFailureTerminal ==
    /\ ErrorShapeTerminal
    /\ ExtractionFailed =>
          /\ SrcAnalyzeMetadata(report.dict) = report.dict
          /\ DOMAIN AppAnalyzeMetadata(report.dict) = DOMAIN report.dict

\* the tags Tier 1 reads the software from
SoftwareAliases == {"EXIF:Software", "XMP:CreatorTool"}

\* the fixed editor keywords
EditorKeywords == {"adobe", "gimp", "final cut", "premiere pro", "photoshop"}

\* a tag value that names an editor, in whatever letter case
NamesEditor(value) ==
    \E keyword \in EditorKeywords : StrContains(StrLower(value.str), keyword)

\* Tier 1 has flagged the software with the literal value in the reason
SoftwareFlagged(value) ==
    /\ is_level1_flagged
    /\ \E i \in Positions(narrative, 1, {"FLAGGED"}) :
          /\ narrative[i].finding = "Third-party software tag detected."
          /\ narrative[i].args = <<value>>

\* the value Tier 1 looks at: the first alias that holds a non-empty value
FirstSoftware == PyOr(Get(metadata, "EXIF:Software"), Get(metadata, "XMP:CreatorTool"))

\* Tier 1 flags an editor named by the first non-empty alias, whatever the
\* letter case, with the value as it stands in the tag
FirstAliasFlagged ==
    (RanTier(1) /\ Truthy(FirstSoftware) /\ NamesEditor(FirstSoftware))
       => SoftwareFlagged(FirstSoftware)

(***************************************************************************)
(* C20  For every software tag value that contains 'photoshop' or another  *)
(* of the fixed editor keywords, in any letter case, under any of the      *)
(* software aliases, Tier 1 emits a FLAGGED finding whose reason holds the *)
(* literal, unnormalized tag value, and Tier 1 returns flagged.            *)
(***************************************************************************)
C20_EditorUnderAnyAlias ==
    RanTier(1) =>
       \A alias \in SoftwareAliases \cap DOMAIN metadata :
          NamesEditor(metadata[alias]) => SoftwareFlagged(metadata[alias])

\* p is an initial part of q
IsPrefix(p, q) == Len(p) <= Len(q) /\ SubSeq(q, 1, Len(p)) = p

\* the levels of consecutive findings never decrease
LevelOrdered(findings) ==
    \A i \in 1..(Len(findings) - 1) : findings[i].level <= findings[i + 1].level

\* a step inside one analysis only appends to the narrative
AppendOnlyStep == pc # "idle" => IsPrefix(narrative, narrative')

\* the report hands out the narrative as the tiers left it, in level order
ReportInLevelOrder ==
    HasReport => (ReportNarrative = narrative /\ LevelOrdered(ReportNarrative))

(***************************************************************************)
(* C21  forensic_narrative is append-only within one analysis and lists    *)
(* findings in level order: in every report the levels of consecutive      *)
(* findings never decrease, and between the start of a call and its report *)
(* every step keeps the findings already appended, in place and unchanged. *)
(***************************************************************************)
C21_AppendOnlyInLevelOrder == []ReportInLevelOrder /\ [][AppendOnlyStep]_allvars

\* a report with findings of three tiers, two of them from Tier 2
C21_Witness ==
    /\ HasReport
    /\ Len(OfLevel(ReportNarrative, 2)) >= 2
    /\ Has(ReportNarrative, 3, {"CONFIRMATION"})
    /\ Has(ReportNarrative, 1, {"FLAGGED"})

\* create and file-system timestamps are both present, both parse, and lie
\* more than 24 hours apart
FsFarFromCreate ==
    /\ Truthy(CreateTag) /\ StrptimeOk(InternalDateMain(CreateTag.str))
    /\ Truthy(FileModTag) /\ StrptimeOk(FileModDateMain(FileModTag.str))
    /\ Abs(SecondsBetween(FileModDateMain(FileModTag.str),
                          InternalDateMain(CreateTag.str))) > 86400

FsFlagged ==
    \E i \in Positions(narrative, 1, {"FLAGGED"}) :
       narrative[i].finding = "File system modification date discrepancy."

\* the file-system check fires whenever the create/modify check could run,
\* whatever that check and the software check found
FsCheckAfterPair == (RanTier(1) /\ FsFarFromCreate /\ BothParse) => FsFlagged

(***************************************************************************)
(* C22  Tier 1's checks are independent and all evaluated: the file-system *)
(* check emits FLAGGED whenever the file-system modification time and the  *)
(* internal create time are both present and parsable and more than 24     *)
(* hours apart, whether or not a modify timestamp is present or parsable   *)
(* and whatever the other checks found.                                    *)
(***************************************************************************)
C22_FsCheckIndependent == (RanTier(1) /\ FsFarFromCreate) => FsFlagged

\* the model tag carries no vendor prefix: normalizing leaves it as it is
PlainModelName ==
    /\ Truthy(ModelTag(metadata))
    /\ NormalizedModel(ModelTag(metadata)) = ModelTag(metadata)

\* Tier 4's outcome follows Tier 2's lookup
Tier4FollowsLookup ==
    /\ ResolvedNamePresent <=> Has(ReportNarrative, 4, {"KNOWLEDGE_BASE_REVIEW_CANDIDATE"})
    /\ ~ResolvedNamePresent <=> Has(ReportNarrative, 4, {"KNOWLEDGE_BASE_CANDIDATE"})

\* for a model name without a vendor prefix the two tiers agree
PlainNameSameResolution == (HasReport /\ PlainModelName) => Tier4FollowsLookup

(***************************************************************************)
(* C23  Tier 4 resolves the device exactly as Tier 2 does (vendor prefix   *)
(* stripped, normalized name first, raw name second): for every metadata   *)
(* with a model tag and every knowledge base the report holds              *)
(* KNOWLEDGE_BASE_REVIEW_CANDIDATE when Tier 2's lookup finds a profile    *)
(* and KNOWLEDGE_BASE_CANDIDATE when it does not, never a candidate for a  *)
(* device whose profile Tier 2 found.                                      *)
(***************************************************************************)
C23_SameResolution == (HasReport /\ Truthy(ModelTag(metadata))) => Tier4FollowsLookup

\* the tags Tier 1 reads timestamps from
TimestampTags ==
    {"EXIF:CreateDate", "QuickTime:CreateDate", "EXIF:ModifyDate", "QuickTime:ModifyDate",
     "File:FileModifyDate"}

\* the length of a timestamp without suffix
BareLen == Len("YYYY:MM:DD HH:MM:SS")

\* a value that is a parsable timestamp followed by some suffix
SuffixedTimestamp(value) ==
    /\ "str" \in DOMAIN value
    /\ Len(value.str) > BareLen
    /\ StrptimeOk(SubSeq(value.str, 1, BareLen))

\* the metadata with the suffix of every such timestamp removed
Bared(md) ==
    [k \in DOMAIN md |->
        IF k \in TimestampTags /\ SuffixedTimestamp(md[k])
        THEN PyStr(SubSeq(md[k].str, 1, BareLen)) ELSE md[k]]

\* Tier 1 found what it finds for the bare timestamps
SameAsBare ==
    /\ OfLevel(narrative, 1) = Level1(Bared(metadata)).findings
    /\ is_level1_flagged = Level1(Bared(metadata)).ret

\* no create or modify timestamp carries a '-' after its seconds
NoNegativeOffsetInside ==
    \A k \in (TimestampTags \ {"File:FileModifyDate"}) \cap DOMAIN metadata :
       SuffixedTimestamp(metadata[k]) =>
          ~StrContains(SubSeq(metadata[k].str, BareLen + 1, Len(metadata[k].str)), "-")

\* sub-second and positive-offset suffixes are discarded everywhere, and any
\* suffix of the file-system timestamp
SuffixDiscardedButNegative == (RanTier(1) /\ NoNegativeOffsetInside) => SameAsBare

(***************************************************************************)
(* C24  Timestamp suffix tolerance in Tier 1: a create, modify or          *)
(* file-system timestamp 'YYYY:MM:DD HH:MM:SS' followed by any sub-second  *)
(* and/or timezone suffix, of positive or negative offset, is parsed with  *)
(* the suffix discarded, so Tier 1 finds what it finds for the bare        *)
(* timestamps.                                                             *)
(***************************************************************************)
C24_SuffixTolerance == RanTier(1) => SameAsBare

\* the codec findings of Tier 2 in the narrative
CodecFindings ==
    {i \in Positions(narrative, 2, {"INCONSISTENCY_DETECTED"}) :
        narrative[i].finding \in {"Video codec mismatch.", "Video codec missing from metadata."}}

\* the codec identifiers of the family a video_codec_default names
CodecFamily(codec_default) ==
    IF StrContains(StrLower(codec_default), "hevc") THEN {"hev1", "hvc1"}
    ELSE IF StrContains(StrLower(codec_default), "h.264/avc") THEN {"avc1", "mp4v"}
    ELSE {}

\* Tier 2 resolves a profile whose video_codec_default names one of the two
\* codec families
HasCodecDefault ==
    /\ Truthy(ResolvedProfile)
    /\ "video_codec_default" \in DOMAIN ResolvedProfile.dict
    /\ IsStr(ResolvedProfile.dict.video_codec_default)
    /\ CodecFamily(ResolvedProfile.dict.video_codec_default.str) # {}

\* the MIME-type tag contains 'video'
IsVideo ==
    /\ Truthy(Get(metadata, "File:MIMEType"))
    /\ StrContains(Get(metadata, "File:MIMEType").str, "video")

CodecTag == Get(metadata, "QuickTime:CompressorID")

\* the codec identifier is absent or outside the expected family
CodecOutsideFamily ==
    \/ ~Truthy(CodecTag)
    \/ StrLower(CodecTag.str) \notin CodecFamily(ResolvedProfile.dict.video_codec_default.str)

C25_WitnessOutside ==
    /\ RanTier(2) /\ HasCodecDefault /\ IsVideo
    /\ Truthy(CodecTag) /\ CodecOutsideFamily
    /\ CodecFindings # {}

\* the file is a JPEG by its name
IsJpegName == StrLower(PathSuffix(file_path)) \in {".jpg", ".jpeg"}

\* the file's quantization values, <<>> when it has none that parse
FileQtValues ==
    LET tag == Get(metadata, "EXIF:JPEGQTables")
    IN  IF Truthy(tag) /\ QtValues(tag).ok THEN QtValues(tag).values ELSE <<>>

\* the template of a profile as a flat list of numbers, whether it is stored
\* as rows or flat; <<>> for a profile without one
FlatTemplate(profile) ==
    LET fingerprints == Get(profile.dict, "fingerprints")
        entry == IF IsDict(fingerprints)
                 THEN Get(fingerprints.dict, "jpeg_quantization_tables") ELSE PyNone
        tables == IF IsDict(entry) THEN Get(entry.dict, "tables") ELSE PyNone
    IN  IF ~IsList(tables) THEN <<>>
        ELSE IF \A j \in 1..Len(tables.list) : IsList(tables.list[j])
        THEN Flatten(tables.list)
        ELSE IF \A j \in 1..Len(tables.list) : IsInt(tables.list[j])
        THEN tables.list
        ELSE <<>>

\* profile i is a software profile whose template has the length of the
\* file's table and agrees with it in strictly more than 95% of the positions
StrongAt(i) ==
    LET profile == knowledge_base[i].profile
        template == FlatTemplate(profile)
    IN  /\ IsDict(profile)
        /\ Get(profile.dict, "type") = PyStr("Software")
        /\ Len(FileQtValues) > 0
        /\ Len(template) = Len(FileQtValues)
        /\ 100 * Cardinality({k \in 1..Len(template) : template[k] = FileQtValues[k]})
              > 95 * Len(template)

StrongProfiles == {i \in 1..Len(knowledge_base) : StrongAt(i)}

\* the names the CONFIRMATION findings of the narrative carry, in order
ConfirmedNames ==
    LET confirmations == SelectSeq(narrative, LAMBDA f : f.level = 3 /\ f.status = "CONFIRMATION")
    IN  [i \in 1..Len(confirmations) |-> confirmations[i].args[2].str]

\* what the first-strong-match policy gives for the file and knowledge base
FirstStrongName ==
    IF IsJpegName /\ StrongProfiles # {}
    THEN <<knowledge_base[Min(StrongProfiles)].name>>
    ELSE <<>>

\* Tier 3 has run to its end
Tier3Returned == RanTier(3) /\ (pc # "idle" \/ HasReport)

\* every software template of the knowledge base is stored as rows
TemplatesAsRows ==
    \A i \in 1..Len(knowledge_base) :
       LET profile == knowledge_base[i].profile
           tables == profile.dict.fingerprints.dict.jpeg_quantization_tables.dict.tables
       IN  Get(profile.dict, "type") = PyStr("Software")
              => \A j \in 1..Len(tables.list) : IsList(tables.list[j])

\* the policy holds over knowledge bases whose templates are all rows
FirstStrongOverRows ==
    (Tier3Returned /\ TemplatesAsRows) => ConfirmedNames = FirstStrongName

(***************************************************************************)
(* C26  Tier 3 first-strong-match policy: for JPEG files only, scanning    *)
(* the software profiles in knowledge-base order, Tier 3 emits one         *)
(* CONFIRMATION, for the first profile whose flattened template has the    *)
(* length of the file's table and matches it in strictly more than 95% of  *)
(* the positions, and stops; templates of another length are skipped; a    *)
(* narrative holds at most one CONFIRMATION, and none for a non-JPEG file. *)
(***************************************************************************)
C26_FirstStrongMatch == Tier3Returned => ConfirmedNames = FirstStrongName

(***************************************************************************)
(* generate_forensic_narrative with its collaborator.  The call of the     *)
(* language model stands inside the try block of lines 103-128; as written *)
(* the call is commented out and the mocked branch always runs.  The       *)
(* collaborator either works ("ok": the mocked branch) or raises.          *)
(***************************************************************************)
Collaborator == {"ok", "raises"}

\* the string the except clause of lines 126-128 returns
NarrativeFallback ==
    [text |-> "Failed to generate forensic narrative due to an error.", lines |-> <<>>]

\* variant: the exception of the collaborator leaves the function
NarrativeOutcome_Uncaught(findings_list, collaborator) ==
    IF collaborator = "raises"
    THEN [ret |-> PyNone, raised |-> "Exception"]
    ELSE [ret |-> GenerateForensicNarrative(findings_list), raised |-> "none"]

\* generate_forensic_narrative, lines 91-128: what it returns or raises
NarrativeOutcome(findings_list, collaborator) ==
    IF collaborator = "raises"
    THEN [ret |-> NarrativeFallback, raised |-> "none"]
    ELSE [ret |-> GenerateForensicNarrative(findings_list), raised |-> "none"]

\* app/main.py, analyze_metadata, lines 158-168: the response for a report;
\* an exception of lines 162-165 becomes the HTTPException of line 168
AppResponse(rep, collaborator) ==
    LET outcome == NarrativeOutcome(IF "forensic_narrative" \in DOMAIN rep
                                    THEN rep.forensic_narrative ELSE <<>>, collaborator)
    IN  IF outcome.raised # "none"
        THEN [status_code |-> 500, content |-> EmptyDict]
        ELSE [status_code |-> 200,
              content |-> [k \in DOMAIN rep \cup {"forensic_narrative_ai_generated"} |->
                              IF k = "forensic_narrative_ai_generated"
                              THEN outcome.ret ELSE rep[k]]]

\* the response carries every field of the report as analyze returned it
CarriesReport(response) ==
    /\ response.status_code = 200
    /\ \A k \in DOMAIN report.dict :
          k \in DOMAIN response.content /\ response.content[k] = report.dict[k]

HigherTierFlagging ==
    {i \in 1..Len(ReportNarrative) :
        /\ ReportNarrative[i].level > 1
        /\ ReportNarrative[i].status \in {"FLAGGED", "INCONSISTENCY_DETECTED"}}

(***************************************************************************)
(* C28  In every report of analyze, analysis_summary.overall_status equals *)
(* analysis_summary.level1_status: a finding that counts for the overall   *)
(* verdict and is not Tier 1's own is an INCONSISTENCY_DETECTED of Tier 2, *)
(* which runs only after Tier 1 flagged, so the higher tiers never change  *)
(* the verdict.                                                            *)
(***************************************************************************)
C28_OverallIsLevel1 ==
    HasReport =>
       /\ ReportSummary.overall_status = ReportSummary.level1_status
       /\ \A i \in HigherTierFlagging :
             /\ ReportNarrative[i].level = 2
             /\ ReportNarrative[i].status = "INCONSISTENCY_DETECTED"
             /\ ReportSummary.level1_status = "FLAGGED"

\* a report in which Tier 2 found an inconsistency
C28_Witness ==
    /\ HasReport
    /\ HigherTierFlagging # {}
    /\ ReportSummary.overall_status = "FLAGGED"

\* the profile Tier 2 resolves has at least one field
ResolvedProfileHasFields == Truthy(ResolvedProfile)

\* Tier 2 reported UNKNOWN_DEVICE
ReportedUnknown == Has(narrative, 2, {"UNKNOWN_DEVICE"})

\* a device is unknown exactly when the lookup gives no profile with a field
UnknownIffNoFields ==
    RanTier(2) =>
       /\ ReportedUnknown <=> ~ResolvedProfileHasFields
       /\ ReportedUnknown => ~is_level2_flagged_or_ambiguous

(***************************************************************************)
(* C29  Tier 2 reports UNKNOWN_DEVICE, and returns false, exactly when     *)
(* neither the normalized nor the raw model name is a key of the knowledge *)
(* base; a model name that is a key is never reported as UNKNOWN_DEVICE,   *)
(* also when the profile stored under it has no fields.                    *)
(***************************************************************************)
C29_UnknownIffNoKey ==
    RanTier(2) =>
       /\ ReportedUnknown <=> ~ResolvedNamePresent
       /\ ReportedUnknown => ~is_level2_flagged_or_ambiguous

\* the narrative the last returned report shows now: the list it holds, which
\* is the instance's own while the field is still bound to it
HandedNarrativeNow ==
    IF handed.narrative_bound THEN narrative ELSE handed.report.dict.forensic_narrative

\* the metadata the last returned report shows now
HandedMetadataNow ==
    IF handed.metadata_bound THEN metadata ELSE handed.report.dict.full_metadata

SomethingHanded == handed.observed /\ handed.report # PyNone

(***************************************************************************)
(* C30  A report returned by analyze is not changed by later operations:   *)
(* after any sequence of further analyze calls on the same instance, also  *)
(* calls that fail at extraction, the forensic_narrative and full_metadata *)
(* of a returned report are what they were when it was returned, because   *)
(* each call binds the fields to a new list and dict and does not empty    *)
(* the ones the report holds.                                              *)
(***************************************************************************)
C30_ReturnedReportStable ==
    SomethingHanded =>
       /\ HandedNarrativeNow = handed.report.dict.forensic_narrative
       /\ HandedMetadataNow = handed.report.dict.full_metadata

\* a later call has appended findings of its own, and another has failed at
\* extraction, after a report with findings of four tiers was returned
C30_Witness ==
    /\ SomethingHanded
    /\ Has(handed.report.dict.forensic_narrative, 3, {"CONFIRMATION"})
    /\ reused
    /\ \/ pc = "return" /\ narrative # handed.report.dict.forensic_narrative
       \/ HasErrorShape

====
